---------------------------- MODULE Spec2Model ----------------------------
(***************************************************************************)
(* A model of the wavetable editor's undo/redo history                     *)
(* (src/src/utils/HistoryManager.js) and of the editor that drives it      *)
(* (class WavetableEditor in src/src/utils/ThemeManager.js).               *)
(*                                                                         *)
(* JavaScript objects that can be shared by reference are kept in three    *)
(* heaps: Float32Array sample buffers, harmonics arrays and                *)
(* {amplitude, phase} objects.  A reference is an index into its heap.     *)
(* An object's address is given by the role of the object that owns it    *)
(* (the caller's state, the k-th pushed snapshot, the value last           *)
(* returned), and after every step the cells no root reaches are reset,    *)
(* so two states differ only when the program could tell them apart.       *)
(*                                                                         *)
(* JavaScript indexes arrays from 0, TLA+ sequences from 1: currentIndex   *)
(* keeps its JavaScript value (-1 for the empty history) and the snapshot  *)
(* it designates is history[currentIndex + 1].                             *)
(***************************************************************************)
EXTENDS Integers, Sequences, FiniteSets, TLC

(***************************************************************************)
(* Bounds of the model.                                                    *)
(***************************************************************************)
\* Largest maxHistory a HistoryManager is constructed with under Spec.
MaxMaxHistory == 2
\* Largest number of push() calls in one behaviour of Spec.
MaxPushes == 4
\* Largest value of the clock read by Date.now().
MaxTime == 1

\* The caller's waveform and spectrum: one sample (1 = 2^0 is a length
\* Waveform accepts) and one harmonic.
Sizes == [samples |-> 1, harmonics |-> 1]
SampleCount == Sizes.samples
HarmonicCount == Sizes.harmonics

\* Values a caller writes into a sample / an amplitude.
SampleValues == {0, 1}
AmplitudeValues == {0, 1}

VARIABLES
  maxHistory,     \* HistoryManager.maxHistory
  history,        \* HistoryManager.history: sequence of snapshots
  currentIndex,   \* HistoryManager.currentIndex (0-based, -1 when empty)
  sampleBufs,     \* heap of Float32Array sample buffers
  harmArrays,     \* heap of harmonics arrays (sequences of object references)
  harmObjs,       \* heap of {amplitude, phase} objects
  live,           \* the caller's state object, passed to push() by reference
  ret,            \* what the last call returned: <<>> for null, <<v>> for v
  threw,          \* TRUE iff the last call ended by throwing
  events,         \* 'historychange' details dispatched by the last call
  now,            \* the clock read by Date.now()
  lastOp,         \* name of the last call on the history or on a state object
  dropped,        \* ids of the snapshots a push cut off as redo branch
  pushCount,      \* number of push() calls so far; the k-th push gives
                  \* its snapshot the id k
  run,            \* number of push() calls since the last undo, redo or clear
  editor,         \* WavetableEditor: isRestoringHistory, activeView, and the
                  \* AudioPreview's isPlaying and number of play() calls
                  \* that wait for their audio context
  dom             \* the Waveform, FrequencySpectrum or canvas a call is made
                  \* on when it is studied alone, and what the call gave

vars == <<maxHistory, history, currentIndex, sampleBufs, harmArrays, harmObjs,
          live, ret, threw, events, now, lastOp, dropped, pushCount, run,
          editor, dom>>

Null == <<>>

(***************************************************************************)
(* The heaps.  Every state object (the caller's, a snapshot, a returned    *)
(* value) has one sample buffer and one harmonics array.  The object made  *)
(* by the k-th push is given address 1 + k, the value a call returns is    *)
(* given the last address (the caller has let go of the value returned     *)
(* before), and the {amplitude, phase} objects are numbered likewise.  A   *)
(* cell no root reaches is free and holds the default value.               *)
(***************************************************************************)
LiveSlot == 1
SnapSlot(k) == 1 + k
RetSlot == MaxPushes + 2
Slots == 1..RetSlot
\* Objects the caller's setHarmonic() makes come from the first LiveObjs cells.
LiveObjs == HarmonicCount * (MaxPushes + 2)
ObjAddrs == 1..(LiveObjs + RetSlot * HarmonicCount)
SlotObj(slot, i) == LiveObjs + (slot - 1) * HarmonicCount + i

FreeBuf == <<>>
FreeArr == <<>>
FreeObj == [amplitude |-> 0, phase |-> 0]

Heap == [bufs |-> sampleBufs, arrs |-> harmArrays, objs |-> harmObjs]

Min(S) == CHOOSE a \in S : \A b \in S : a <= b

\* The state objects the roots hold.
Roots(lv, h, r) == {lv} \cup {h[i] : i \in 1..Len(h)} \cup {r[i] : i \in 1..Len(r)}
UsedBufs(rs) == {s.waveform.samples : s \in rs}
UsedArrs(rs) == {s.spectrum.harmonics : s \in rs}
UsedObjs(arrs, rs) ==
  UNION {{arrs[a][i] : i \in 1..Len(arrs[a])} : a \in UsedArrs(rs)}

\* The sample values of a state object or snapshot.
SamplesOf(hp, s) == hp.bufs[s.waveform.samples]
\* The {amplitude, phase} values of a state object or snapshot.
HarmonicsOf(hp, s) ==
  LET arr == hp.arrs[s.spectrum.harmonics]
  IN [i \in 1..Len(arr) |-> hp.objs[arr[i]]]

\* The heaps after a step: what the roots lv, h, r no longer reach is freed.
Commit(hp0, lv, h, r) ==
  \E hp \in {hp0}, rs \in {Roots(lv, h, r)} :
  \E ub \in {UsedBufs(rs)}, ua \in {UsedArrs(rs)}, uo \in {UsedObjs(hp.arrs, rs)} :
     /\ sampleBufs' = [a \in Slots |-> IF a \in ub THEN hp.bufs[a] ELSE FreeBuf]
     /\ harmArrays' = [a \in Slots |-> IF a \in ua THEN hp.arrs[a] ELSE FreeArr]
     /\ harmObjs' = [a \in ObjAddrs |-> IF a \in uo THEN hp.objs[a] ELSE FreeObj]
     /\ live' = lv
     /\ history' = h
     /\ ret' = r

(***************************************************************************)
(* HistoryManager (src/src/utils/HistoryManager.js).                       *)
(***************************************************************************)
\* canUndo() that lets the first entry be undone.
canUndo_atZero(ci) == ci >= 0

\* canUndo(), for a value of this.currentIndex.
canUndo(ci) == ci > 0

\* A canRedo that is true on the last entry too.
canRedo_pastEnd(h, ci) == ci < Len(h)

\* canRedo(), for values of this.history and this.currentIndex.
canRedo(h, ci) == ci < Len(h) - 1

\* A detail that reports the cursor counted from 1.
dispatchHistoryChange_oneBased(h, ci) ==
  [canUndo |-> canUndo(ci), canRedo |-> canRedo(h, ci),
   historySize |-> Len(h), currentIndex |-> ci + 1]

\* The detail of the 'historychange' event dispatchHistoryChange() builds.
dispatchHistoryChange(h, ci) ==
  [canUndo |-> canUndo(ci), canRedo |-> canRedo(h, ci),
   historySize |-> Len(h), currentIndex |-> ci]

\* A clone that copies the two references instead of what they refer to.
cloneState_shallow(hp, state, t, g) ==
  [heap |-> hp,
   snap |-> [waveform |-> [sampleRate |-> state.waveform.sampleRate,
                           samples |-> state.waveform.samples],
             spectrum |-> [harmonicCount |-> state.spectrum.harmonicCount,
                           harmonics |-> state.spectrum.harmonics],
             timestamp |-> t,
             id |-> g.id,
             orig |-> g.orig]]

\* cloneState(state) at clock value t: a new buffer holding the samples, a
\* new array of new {amplitude, phase} objects, and Date.now() as timestamp.
\* g is not part of the program: g.id is the number of the push the content
\* comes from, g.orig the content that push was given, g.slot the address
\* the new objects get.
cloneState(hp, state, t, g) ==
  LET src == hp.arrs[state.spectrum.harmonics]
      fresh == [i \in 1..Len(src) |-> SlotObj(g.slot, i)]
  IN [heap |-> [bufs |-> [hp.bufs EXCEPT ![g.slot] = hp.bufs[state.waveform.samples]],
                arrs |-> [hp.arrs EXCEPT ![g.slot] = fresh],
                objs |-> [x \in ObjAddrs |->
                           IF \E i \in 1..Len(src) : fresh[i] = x
                           THEN hp.objs[src[CHOOSE i \in 1..Len(src) : fresh[i] = x]]
                           ELSE hp.objs[x]]],
      snap |-> [waveform |-> [sampleRate |-> state.waveform.sampleRate,
                              samples |-> g.slot],
                spectrum |-> [harmonicCount |-> state.spectrum.harmonicCount,
                              harmonics |-> g.slot],
                timestamp |-> t,
                id |-> g.id,
                orig |-> g.orig]]

\* this.history[i]: <<>> stands for undefined.
at(h, i) == IF i + 1 \in 1..Len(h) THEN <<h[i + 1]>> ELSE <<>>

\* Array.prototype.slice(0, end): a negative end counts from the end of the
\* array, an end beyond the array stops at its end.
slice(h, end) ==
  LET e == IF end < 0
           THEN (IF Len(h) + end < 0 THEN 0 ELSE Len(h) + end)
           ELSE (IF end > Len(h) THEN Len(h) ELSE end)
  IN SubSeq(h, 1, e)

\* A push that keeps the entries after currentIndex.
pushResult_keepsRedoBranch(h, ci, snap, max) ==
  LET h2 == Append(h, snap)
  IN IF Len(h2) > max
     THEN [history |-> Tail(h2), currentIndex |-> ci]
     ELSE [history |-> h2, currentIndex |-> ci + 1]

\* A push that lets the history grow one entry beyond maxHistory.
pushResult_capOffByOne(h, ci, snap, max) ==
  LET h2 == Append(slice(h, ci + 1), snap)
  IN IF Len(h2) > max + 1
     THEN [history |-> Tail(h2), currentIndex |-> ci]
     ELSE [history |-> h2, currentIndex |-> ci + 1]

\* A push that advances currentIndex in the eviction branch too.
pushResult_alwaysAdvances(h, ci, snap, max) ==
  LET h2 == Append(slice(h, ci + 1), snap)
  IN IF Len(h2) > max
     THEN [history |-> Tail(h2), currentIndex |-> ci + 1]
     ELSE [history |-> h2, currentIndex |-> ci + 1]

\* push(state), lines 19-29: the new history and currentIndex once the clone
\* snap of the state is made.
pushResult(h, ci, snap, max) ==
  LET h1 == slice(h, ci + 1)
      h2 == Append(h1, snap)
  IN IF Len(h2) > max
     THEN [history |-> Tail(h2), currentIndex |-> ci]
     ELSE [history |-> h2, currentIndex |-> ci + 1]

\* An undo that clones the entry it leaves.
undoResult_beforeMove(h, ci) == [currentIndex |-> ci - 1, state |-> at(h, ci)]

\* undo(), lines 54-56: the new currentIndex and the snapshot that is cloned.
undoResult(h, ci) == [currentIndex |-> ci - 1, state |-> at(h, ci - 1)]

\* A redo that clones the entry it leaves.
redoResult_beforeMove(h, ci) == [currentIndex |-> ci + 1, state |-> at(h, ci)]

\* redo(), lines 67-69.
redoResult(h, ci) == [currentIndex |-> ci + 1, state |-> at(h, ci + 1)]

\* getCurrentState(), line 78: is currentIndex inside the history?
inRange(h, ci) == ci >= 0 /\ ci < Len(h)

\* A clear that leaves the cursor on the first entry.
clearResult_cursorZero == [history |-> <<>>, currentIndex |-> 0]

\* clear(), lines 88-89.
clearResult == [history |-> <<>>, currentIndex |-> -1]

\* The content of the caller's state object in heap hp, as push() finds it.
LiveContent(hp) ==
  [samples |-> SamplesOf(hp, live), harmonics |-> HarmonicsOf(hp, live),
   timestamp |-> now]

\* push(state) for the caller's state object as it is in heap hp.
pushFrom(hp) ==
  /\ LET c == cloneState(hp, live, now,
                         [id |-> pushCount + 1, orig |-> LiveContent(hp),
                          slot |-> SnapSlot(pushCount + 1)])
         p == pushResult(history, currentIndex, c.snap, maxHistory)
     IN /\ Commit(c.heap, live, p.history, Null)
        /\ currentIndex' = p.currentIndex
        /\ events' = <<dispatchHistoryChange(p.history, p.currentIndex)>>
  /\ threw' = FALSE
  /\ dropped' = dropped \cup
                  {history[j].id : j \in (currentIndex + 2)..Len(history)}
  /\ pushCount' = pushCount + 1
  /\ run' = run + 1

push ==
  /\ pushCount < MaxPushes
  /\ pushFrom(Heap)
  /\ lastOp' = "push"
  /\ UNCHANGED <<editor, dom, maxHistory, now>>

\* What is not part of the program, for the clone of snapshot s a call returns.
Returned(s) == [id |-> s.id, orig |-> s.orig, slot |-> RetSlot]

\* The part undo() and redo() share once the move r is decided.
move(r) ==
  /\ currentIndex' = r.currentIndex
  /\ events' = <<dispatchHistoryChange(history, r.currentIndex)>>
  /\ IF r.state = <<>>
     THEN /\ threw' = TRUE
          /\ Commit(Heap, live, history, Null)
     ELSE LET c == cloneState(Heap, r.state[1], now, Returned(r.state[1]))
          IN /\ threw' = FALSE
             /\ Commit(c.heap, live, history, <<c.snap>>)

\* A call that changes nothing and returns null.
returnNull ==
  /\ Commit(Heap, live, history, Null)
  /\ threw' = FALSE
  /\ events' = <<>>
  /\ UNCHANGED currentIndex

undo ==
  /\ IF canUndo(currentIndex)
     THEN move(undoResult(history, currentIndex))
     ELSE returnNull
  /\ lastOp' = "undo"
  /\ run' = 0
  /\ UNCHANGED <<editor, dom, maxHistory, now, dropped, pushCount>>

redo ==
  /\ IF canRedo(history, currentIndex)
     THEN move(redoResult(history, currentIndex))
     ELSE returnNull
  /\ lastOp' = "redo"
  /\ run' = 0
  /\ UNCHANGED <<editor, dom, maxHistory, now, dropped, pushCount>>

getCurrentState ==
  /\ IF inRange(history, currentIndex)
     THEN LET s == at(history, currentIndex)
          IN IF s = <<>>
             THEN /\ threw' = TRUE
                  /\ Commit(Heap, live, history, Null)
             ELSE LET c == cloneState(Heap, s[1], now, Returned(s[1]))
                  IN /\ threw' = FALSE
                     /\ Commit(c.heap, live, history, <<c.snap>>)
     ELSE /\ threw' = FALSE
          /\ Commit(Heap, live, history, Null)
  /\ events' = <<>>
  /\ lastOp' = "getCurrentState"
  /\ UNCHANGED <<editor, dom, maxHistory, currentIndex, now, dropped, pushCount, run>>

clear ==
  /\ Commit(Heap, live, clearResult.history, Null)
  /\ currentIndex' = clearResult.currentIndex
  /\ events' = <<dispatchHistoryChange(clearResult.history,
                                       clearResult.currentIndex)>>
  /\ threw' = FALSE
  /\ lastOp' = "clear"
  /\ run' = 0
  /\ UNCHANGED <<editor, dom, maxHistory, now, dropped, pushCount>>

(***************************************************************************)
(* The caller and the clock.                                               *)
(***************************************************************************)
clamp(v, lo, hi) == IF v < lo THEN lo ELSE IF v > hi THEN hi ELSE v

\* A write by the caller: no HistoryManager method runs.
callerStep(name) ==
  /\ lastOp' = name
  /\ events' = <<>>
  /\ UNCHANGED <<editor, dom, maxHistory, currentIndex, threw, now, dropped, pushCount, run>>

\* Waveform.setSample(i, v) on the sample buffer of state object s.
setSample(hp, s, i, v) ==
  [hp EXCEPT !.bufs[s.waveform.samples][i] = clamp(v, -1, 1)]

\* FrequencySpectrum.setHarmonic(i, a, phase) on the harmonics array of s:
\* the array element is replaced by a new object.
setHarmonic(hp, rs, s, i, a, phase) ==
  LET arrs == [hp.arrs EXCEPT ![s.spectrum.harmonics][i] = 0]
      o == Min((1..LiveObjs) \ UsedObjs(arrs, rs))
  IN [hp EXCEPT !.objs[o] = [amplitude |-> clamp(a, 0, 1), phase |-> phase],
                !.arrs[s.spectrum.harmonics][i] = o]

\* An assignment to harmonics[i].amplitude, as FrequencySpectrum.normalize()
\* makes: the object is changed in place.
writeAmplitude(hp, s, i, a) ==
  [hp EXCEPT !.objs[hp.arrs[s.spectrum.harmonics][i]].amplitude = a]

LiveSetSample ==
  \E i \in 1..SampleCount, v \in SampleValues :
    /\ Commit(setSample(Heap, live, i, v), live, history, ret)
    /\ callerStep("write")

LiveSetHarmonic ==
  \E i \in 1..HarmonicCount, a \in AmplitudeValues :
    /\ Commit(setHarmonic(Heap, Roots(live, history, ret), live, i, a,
                          HarmonicsOf(Heap, live)[i].phase), live, history, ret)
    /\ callerStep("write")

LiveWriteAmplitude ==
  \E i \in 1..HarmonicCount, a \in AmplitudeValues :
    /\ Commit(writeAmplitude(Heap, live, i, a), live, history, ret)
    /\ callerStep("write")

RetSetSample ==
  /\ ret # Null
  /\ \E i \in 1..SampleCount, v \in SampleValues :
       Commit(setSample(Heap, ret[1], i, v), live, history, ret)
  /\ callerStep("write")

RetWriteAmplitude ==
  /\ ret # Null
  /\ \E i \in 1..HarmonicCount, a \in AmplitudeValues :
       Commit(writeAmplitude(Heap, ret[1], i, a), live, history, ret)
  /\ callerStep("write")

\* Time passes between two calls.
Tick ==
  /\ now < MaxTime
  /\ now' = now + 1
  /\ UNCHANGED <<editor, dom, maxHistory, history, currentIndex, sampleBufs, harmArrays,
                 harmObjs, live, ret, threw, events, lastOp, dropped, pushCount,
                 run>>

\* The caller's state object: its waveform and spectrum live at LiveSlot.
LiveRef ==
  [waveform |-> [sampleRate |-> SampleCount, samples |-> LiveSlot],
   spectrum |-> [harmonicCount |-> HarmonicCount, harmonics |-> LiveSlot]]

\* A canvas before it is given a waveform or spectrum.  shared: the canvas
\* holds the very object that is the editor's currentWaveform or
\* currentSpectrum; samples, harmonics: the content of the canvas's object
\* when it is another object and the canvas is shown (a hidden canvas gets
\* no pointer event, and switchView hands it a new object when it shows it).
NoTimeCanvas ==
  [shared |-> FALSE, samples |-> <<>>, isDragging |-> FALSE,
   isDrawing |-> FALSE]
NoFrequencyCanvas ==
  [shared |-> FALSE, harmonics |-> <<>>, draggedHarmonic |-> Null]

\* localStorage without the editor's item, and the backend working.
NoItem == [waveform |-> Null, spectrum |-> Null, activeView |-> Null]
NewStorage == [item |-> NoItem, readFails |-> FALSE, writeFails |-> FALSE]

\* The editor's and its AudioPreview's fields as their constructors set them.
NewEditor ==
  [isRestoringHistory |-> FALSE, activeView |-> "time",
   isPlaying |-> FALSE, pendingPlays |-> 0,
   time |-> NoTimeCanvas, freq |-> NoFrequencyCanvas, storage |-> NewStorage]

Init ==
  /\ maxHistory \in 1..MaxMaxHistory
  /\ history = <<>>
  /\ currentIndex = -1
  /\ sampleBufs = [a \in Slots |->
                     IF a = LiveSlot THEN [i \in 1..SampleCount |-> 0]
                     ELSE FreeBuf]
  /\ harmArrays = [a \in Slots |->
                     IF a = LiveSlot THEN [i \in 1..HarmonicCount |-> i]
                     ELSE FreeArr]
  /\ harmObjs = [a \in ObjAddrs |-> FreeObj]
  /\ live = LiveRef
  /\ ret = Null
  /\ threw = FALSE
  /\ events = <<>>
  /\ now = 0
  /\ lastOp = "new"
  /\ dropped = {}
  /\ pushCount = 0
  /\ run = 0
  /\ editor = NewEditor
  /\ dom = Null

\* A HistoryManager and a caller that edits its own waveform and spectrum
\* between the calls.
Next ==
  \/ push
  \/ undo
  \/ redo
  \/ getCurrentState
  \/ clear
  \/ LiveSetSample
  \/ LiveSetHarmonic
  \/ LiveWriteAmplitude

Spec == Init /\ [][Next]_vars

\* The same, with a caller that also writes into the values it is returned.
AliasNext ==
  \/ push
  \/ undo
  \/ redo
  \/ getCurrentState
  \/ clear
  \/ LiveSetSample
  \/ LiveSetHarmonic
  \/ LiveWriteAmplitude
  \/ RetSetSample
  \/ RetWriteAmplitude

AliasSpec == Init /\ [][AliasNext]_vars

\* The same as Spec, with time passing between the calls.
ClockNext ==
  \/ push
  \/ undo
  \/ redo
  \/ getCurrentState
  \/ clear
  \/ LiveSetSample
  \/ LiveSetHarmonic
  \/ LiveWriteAmplitude
  \/ Tick

ClockSpec == Init /\ [][ClockNext]_vars

(***************************************************************************)
(* The editor (class WavetableEditor).  Every handler runs to completion   *)
(* before the next one starts; the only continuation that runs later is    *)
(* that of AudioPreview.play(), which awaits the audio context.            *)
(***************************************************************************)
\* new HistoryManager(50) in initialize().
EditorMaxHistory == 50
\* Largest number of play() calls that wait for their audio context.
MaxPending == 1
\* Largest number of snapshots the editor pushes after the one of initialize().
MaxEdits == 2

\* The values of the view selector.
Views == {"time", "frequency"}
\* Two of the preset buttons.
PresetNames == {"sine", "square"}

\* WaveformPresets.sine and .square for n samples.  Sample 0 of the sine is
\* sin(0); a waveform of Sizes.samples = 1 sample has no other.
preset(name, n) ==
  IF name = "sine"
  THEN [i \in 1..n |-> 0]
  ELSE [i \in 1..n |-> IF 2 * (i - 1) < n THEN 1 ELSE -1]

Abs(x) == IF x < 0 THEN -x ELSE x

\* WaveformTransform.toFrequencyDomain for a waveform of one sample: the
\* sum of each harmonic has the single term n = 0, whose angle is 0, so
\* real = samples[0] and imag = 0.  setHarmonic clamps the amplitude
\* 2 * |real| to [0, 1]; the phase atan2(0, real) is 0 or pi, written here
\* in half turns.
toFrequencyDomain(samples) ==
  [k \in 1..HarmonicCount |->
     [amplitude |-> clamp(2 * Abs(samples[1]), 0, 1),
      phase |-> IF samples[1] < 0 THEN 1 ELSE 0]]

\* WaveformTransform.toTimeDomain for one sample: every harmonic
\* contributes amplitude * sin(phase).  sin(0) is 0; Math.sin(Math.PI) is a
\* positive number below 1e-15, which normalize() scales to 1.
toTimeDomain(harmonics) ==
  [i \in 1..SampleCount |->
     IF \E k \in 1..Len(harmonics) :
          harmonics[k].amplitude > 0 /\ harmonics[k].phase # 0
     THEN 1 ELSE 0]

\* this.currentWaveform and this.currentSpectrum become new objects with the
\* given samples and harmonics.
setLive(hp, samples, harmonics) ==
  [bufs |-> [hp.bufs EXCEPT ![LiveSlot] = samples],
   arrs |-> [hp.arrs EXCEPT ![LiveSlot] = [i \in 1..Len(harmonics) |-> i]],
   objs |-> [x \in ObjAddrs |->
               IF x \in 1..Len(harmonics) THEN harmonics[x] ELSE hp.objs[x]]]

\* AudioPreview.updateWaveform(): a playing oscillator is stopped and play()
\* is called without being awaited.
updateWaveform(ed) ==
  IF ed.isPlaying
  THEN [ed EXCEPT !.isPlaying = FALSE, !.pendingPlays = @ + 1]
  ELSE ed

\* StorageManager.loadState(): the parsed item, or null (here the empty
\* state saveWaveform and the others replace it by) when reading throws.
loadState(st) == IF st.readFails THEN NoItem ELSE st.item

\* A saveState without its try/catch.
saveState_noCatch(st, state) ==
  [storage |-> IF st.writeFails THEN st ELSE [st EXCEPT !.item = state],
   threw |-> st.writeFails]

\* StorageManager.saveState(state): the storage afterwards, and whether the
\* call threw.
saveState(st, state) ==
  [storage |-> IF st.writeFails THEN st ELSE [st EXCEPT !.item = state],
   threw |-> FALSE]

saveWaveform(st, samples) ==
  saveState(st, [loadState(st) EXCEPT !.waveform = <<samples>>])

saveSpectrum(st, harmonics) ==
  saveState(st, [loadState(st) EXCEPT !.spectrum = <<harmonics>>])

saveActiveView(st, viewType) ==
  saveState(st, [loadState(st) EXCEPT !.activeView = <<viewType>>])

\* saveWaveform(currentWaveform) followed by saveSpectrum(currentSpectrum).
persist(st, samples, harmonics) ==
  LET a == saveWaveform(st, samples)
  IN IF a.threw THEN a ELSE saveSpectrum(a.storage, harmonics)

\* TimedomainCanvas.updateFromWaveform(this.currentWaveform).
updateFromWaveform(ed) ==
  [ed EXCEPT !.time.shared = TRUE, !.time.samples = <<>>]

\* FrequencyCanvas.updateFromSpectrum(this.currentSpectrum).
updateFromSpectrum(ed) ==
  [ed EXCEPT !.freq.shared = TRUE, !.freq.harmonics = <<>>]

\* The editor has replaced currentWaveform and currentSpectrum by new
\* objects: a canvas that held the old one holds it alone now.
detach(ed) ==
  [ed EXCEPT !.time.shared = FALSE, !.time.samples = <<>>,
             !.freq.shared = FALSE, !.freq.harmonics = <<>>]

\* The update of the active view in restoreState() and loadPreset().
updateActiveView(ed) ==
  IF ed.activeView = "time" THEN updateFromWaveform(ed)
  ELSE updateFromSpectrum(ed)

\* A restoreState that leaves the flag set.
restoreState_keepsFlag(hp, state, ed) ==
  LET ed1 == updateWaveform(updateActiveView(detach(ed)))
      sv == persist(ed1.storage, SamplesOf(hp, state), HarmonicsOf(hp, state))
  IN [heap |-> setLive(hp, SamplesOf(hp, state), HarmonicsOf(hp, state)),
      editor |-> [ed1 EXCEPT !.storage = sv.storage,
                             !.isRestoringHistory = TRUE],
      threw |-> sv.threw]

\* A restoreState that restores the waveform and keeps the spectrum.
restoreState_waveformOnly(hp, state, ed) ==
  LET sv == persist(ed.storage, SamplesOf(hp, state), HarmonicsOf(hp, live))
  IN [heap |-> setLive(hp, SamplesOf(hp, state), HarmonicsOf(hp, live)),
      editor |-> [updateWaveform(updateActiveView(detach(ed)))
                    EXCEPT !.storage = sv.storage],
      threw |-> sv.threw]

\* restoreState(state): the heap and the editor's fields when it returns or
\* throws.  updateFromWaveform() and updateFromSpectrum() assign and render;
\* none of the calls made here calls back into the editor.
restoreState(hp, state, ed) ==
  LET ed1 == [ed EXCEPT !.isRestoringHistory = TRUE]
      hp1 == setLive(hp, SamplesOf(hp, state), HarmonicsOf(hp, state))
      ed2 == updateWaveform(updateActiveView(detach(ed1)))
      sv == persist(ed2.storage, SamplesOf(hp, state), HarmonicsOf(hp, state))
      ed3 == [ed2 EXCEPT !.storage = sv.storage]
  IN [heap |-> hp1,
      editor |-> IF sv.threw THEN ed3
                 ELSE [ed3 EXCEPT !.isRestoringHistory = FALSE],
      threw |-> sv.threw]

\* pushToHistory() for the editor's state as it is in heap hp.
pushToHistory(hp, ed) ==
  IF ed.isRestoringHistory
  THEN /\ Commit(hp, live, history, Null)
       /\ threw' = FALSE
       /\ events' = <<>>
       /\ UNCHANGED <<currentIndex, dropped, pushCount, run>>
  ELSE pushFrom(hp)

\* The part of WavetableEditor.undo() and redo() after the history manager
\* has decided the move r: the clone it returns is restored and dropped.
restored(r) ==
  /\ currentIndex' = r.currentIndex
  /\ events' = <<dispatchHistoryChange(history, r.currentIndex)>>
  /\ IF r.state = <<>>
     THEN /\ threw' = TRUE
          /\ Commit(Heap, live, history, Null)
          /\ editor' = editor
     ELSE LET c == cloneState(Heap, r.state[1], now, Returned(r.state[1]))
              e == restoreState(c.heap, c.snap, editor)
          IN /\ threw' = e.threw
             /\ Commit(e.heap, live, history, Null)
             /\ editor' = e.editor

\* The handlers below stop where a counter of the model would pass its bound.
CanRecord == ~editor.isRestoringHistory => pushCount <= MaxEdits
CanRestart == editor.isPlaying => editor.pendingPlays < MaxPending

editorUndo ==
  /\ canUndo(currentIndex) => CanRestart
  /\ IF canUndo(currentIndex)
     THEN restored(undoResult(history, currentIndex))
     ELSE returnNull /\ editor' = editor
  /\ lastOp' = "editor.undo"
  /\ run' = 0
  /\ UNCHANGED <<dom, maxHistory, now, dropped, pushCount>>

editorRedo ==
  /\ canRedo(history, currentIndex) => CanRestart
  /\ IF canRedo(history, currentIndex)
     THEN restored(redoResult(history, currentIndex))
     ELSE returnNull /\ editor' = editor
  /\ lastOp' = "editor.redo"
  /\ run' = 0
  /\ UNCHANGED <<dom, maxHistory, now, dropped, pushCount>>

\* onTimeDomainChange(waveform) for a waveform with samples w, the editor's
\* fields being ed when the event arrives: the editor keeps a clone, the
\* time canvas its own object.
onTimeDomainChangeOf(w, ed) ==
  /\ CanRecord /\ CanRestart
  /\ LET ed1 == [detach(ed) EXCEPT
                   !.time.samples = IF ed.activeView = "time" THEN w ELSE <<>>]
         ed2 == IF ed1.activeView = "frequency"
                THEN updateFromSpectrum(ed1) ELSE ed1
         ed3 == updateWaveform(ed2)
         sv == persist(ed3.storage, w, toFrequencyDomain(w))
     IN /\ pushToHistory(setLive(Heap, w, toFrequencyDomain(w)), ed3)
        /\ editor' = [ed3 EXCEPT !.storage = sv.storage]
  /\ lastOp' = "edit"
  /\ UNCHANGED <<dom, maxHistory, now>>

\* The time canvas dispatches a 'waveformchange' for a waveform w.
onTimeDomainChange ==
  \E w \in [1..SampleCount -> SampleValues] : onTimeDomainChangeOf(w, editor)

\* onFrequencyDomainChange(spectrum) for a spectrum with harmonics sp.
onFrequencyDomainChangeOf(sp, ed) ==
  /\ CanRecord /\ CanRestart
  /\ LET ed1 == [detach(ed) EXCEPT
                   !.freq.harmonics =
                      IF ed.activeView = "time" THEN <<>> ELSE sp]
         ed2 == IF ed1.activeView = "time"
                THEN updateFromWaveform(ed1) ELSE ed1
         ed3 == updateWaveform(ed2)
         sv == persist(ed3.storage, toTimeDomain(sp), sp)
     IN /\ pushToHistory(setLive(Heap, toTimeDomain(sp), sp), ed3)
        /\ editor' = [ed3 EXCEPT !.storage = sv.storage]
  /\ lastOp' = "edit"
  /\ UNCHANGED <<dom, maxHistory, now>>

\* The frequency canvas dispatches a 'spectrumchange': the user has set
\* amplitudes, updateHarmonicAtPosition keeps the phases.
onFrequencyDomainChange ==
  \E a \in [1..HarmonicCount -> AmplitudeValues] :
    onFrequencyDomainChangeOf(
      [k \in 1..HarmonicCount |->
         [amplitude |-> a[k], phase |-> HarmonicsOf(Heap, live)[k].phase]],
      editor)

\* loadPreset(presetName).  It does not update the audio preview.
loadPreset(name) ==
  /\ CanRecord
  /\ LET w == preset(name, SampleCount)
         ed1 == updateActiveView(detach(editor))
         sv == persist(ed1.storage, w, toFrequencyDomain(w))
     IN /\ pushToHistory(setLive(Heap, w, toFrequencyDomain(w)), ed1)
        /\ editor' = [ed1 EXCEPT !.storage = sv.storage]
  /\ lastOp' = "edit"
  /\ UNCHANGED <<dom, maxHistory, now>>

\* A handler that does not touch the waveform, the spectrum or the history.
editorStep ==
  UNCHANGED <<dom, maxHistory, history, currentIndex, sampleBufs, harmArrays,
              harmObjs, live, ret, threw, events, now, lastOp, dropped,
              pushCount, run>>

\* switchView(viewType): the canvas shown is handed the editor's current
\* object, the other one is hidden.
switchView(viewType) ==
  /\ LET ed1 == [editor EXCEPT
                   !.activeView = viewType,
                   !.storage = saveActiveView(@, viewType).storage]
     IN editor' = IF viewType = "time"
                  THEN [updateFromWaveform(ed1) EXCEPT !.freq.harmonics = <<>>]
                  ELSE [updateFromSpectrum(ed1) EXCEPT !.time.samples = <<>>]
  /\ editorStep

\* playPreview() up to the await in AudioPreview.play().
playPreview ==
  /\ editor.pendingPlays < MaxPending
  /\ editor' = [editor EXCEPT !.pendingPlays = @ + 1]
  /\ editorStep

\* AudioPreview.play() from the await on: stop(), then the new oscillator.
playResume ==
  /\ editor.pendingPlays > 0
  /\ editor' = [editor EXCEPT !.pendingPlays = @ - 1, !.isPlaying = TRUE]
  /\ editorStep

stopPreview ==
  /\ editor' = [editor EXCEPT !.isPlaying = FALSE]
  /\ editorStep

\* The state new WavetableEditor() leaves: the saved waveform or the sine
\* preset, its spectrum, one snapshot of them in the history, the saved view,
\* and both canvases constructed on the editor's own objects.
EditorInit ==
  \E w \in [1..SampleCount -> SampleValues], view \in Views,
     saved \in BOOLEAN :
    LET hp0 == [bufs |-> [a \in Slots |-> FreeBuf],
                arrs |-> [a \in Slots |-> FreeArr],
                objs |-> [x \in ObjAddrs |-> FreeObj]]
        hp1 == setLive(hp0, w, toFrequencyDomain(w))
        c == cloneState(hp1, LiveRef, 0,
                        [id |-> 1,
                         orig |-> [samples |-> w,
                                   harmonics |-> toFrequencyDomain(w),
                                   timestamp |-> 0],
                         slot |-> SnapSlot(1)])
    IN /\ ~saved => w = preset("sine", SampleCount)
       /\ maxHistory = EditorMaxHistory
       /\ history = <<c.snap>>
       /\ currentIndex = 0
       /\ sampleBufs = c.heap.bufs
       /\ harmArrays = c.heap.arrs
       /\ harmObjs = c.heap.objs
       /\ live = LiveRef
       /\ ret = Null
       /\ threw = FALSE
       /\ events = <<dispatchHistoryChange(<<c.snap>>, 0)>>
       /\ now = 0
       /\ lastOp = "new"
       /\ dropped = {}
       /\ pushCount = 1
       /\ run = 1
       /\ editor =
            [NewEditor EXCEPT
               !.activeView = view,
               !.time.shared = TRUE,
               !.freq.shared = TRUE,
               !.storage.item =
                  [waveform |-> IF saved THEN <<w>> ELSE Null,
                   spectrum |-> IF saved THEN <<toFrequencyDomain(w)>>
                                ELSE Null,
                   activeView |-> <<view>>]]
       /\ dom = Null

EditorNext ==
  \/ editorUndo
  \/ editorRedo
  \/ onTimeDomainChange
  \/ onFrequencyDomainChange
  \/ \E name \in PresetNames : loadPreset(name)
  \/ \E viewType \in Views : switchView(viewType)
  \/ playPreview
  \/ playResume
  \/ stopPreview

EditorSpec == EditorInit /\ [][EditorNext]_vars

(***************************************************************************)
(* The two canvases.  A canvas gets pointer events while it is shown, and  *)
(* a pointer goes down on the time canvas only after it went up on it.     *)
(* With one sample the time canvas has one control point, at sample 0.     *)
(***************************************************************************)
\* Waveform.ensureContinuity().
ensureContinuity(samples) == [samples EXCEPT ![Len(samples)] = samples[1]]

\* The samples of the time canvas's waveform and the harmonics of the
\* frequency canvas's spectrum.
canvasSamples(ed, hp) ==
  IF ed.time.shared THEN SamplesOf(hp, live) ELSE ed.time.samples
canvasHarmonics(ed, hp) ==
  IF ed.freq.shared THEN HarmonicsOf(hp, live) ELSE ed.freq.harmonics

\* A pointer event that no handler of the editor answers: the canvas has
\* written into its waveform or spectrum, in heap hp or in its own fields ed.
gesture(hp, ed) ==
  /\ Commit(hp, live, history, Null)
  /\ editor' = ed
  /\ lastOp' = "gesture"
  /\ events' = <<>>
  /\ UNCHANGED <<dom, maxHistory, currentIndex, threw, now, dropped, pushCount,
                 run>>

\* this.waveform.setSample(i, v) by the time canvas.
canvasSetSample(hp, ed, i, v) ==
  IF ed.time.shared
  THEN [heap |-> setSample(hp, live, i, v), editor |-> ed]
  ELSE [heap |-> hp,
        editor |-> [ed EXCEPT !.time.samples[i] = clamp(v, -1, 1)]]

\* this.spectrum.setHarmonic(i, a, phase) by the frequency canvas.
canvasSetHarmonic(hp, ed, i, a, phase) ==
  IF ed.freq.shared
  THEN [heap |-> setHarmonic(hp, Roots(live, history, ret), live, i, a, phase),
        editor |-> ed]
  ELSE [heap |-> hp,
        editor |-> [ed EXCEPT !.freq.harmonics[i] =
                                 [amplitude |-> clamp(a, 0, 1),
                                  phase |-> phase]]]

\* TimedomainCanvas.handleMouseDown: on a control point (hit) a drag starts,
\* elsewhere a freehand stroke that sets sample i to v at once;
\* updateWaveformAtPosition finds no neighbour of sample 0 in range.
timeMouseDown ==
  /\ editor.activeView = "time"
  /\ ~editor.time.isDragging /\ ~editor.time.isDrawing
  /\ \/ gesture(Heap, [editor EXCEPT !.time.isDragging = TRUE])
     \/ \E i \in 1..SampleCount, v \in SampleValues :
          LET c == canvasSetSample(Heap, [editor EXCEPT !.time.isDrawing = TRUE],
                                   i, v)
          IN gesture(c.heap, c.editor)

\* TimedomainCanvas.handleMouseMove while dragging: the control point takes
\* the value v, the waveform is rebuilt from the control points and a
\* 'waveformchange' is dispatched.
timeMouseMoveDragging ==
  /\ editor.activeView = "time"
  /\ editor.time.isDragging
  /\ \E v \in SampleValues :
       onTimeDomainChangeOf([i \in 1..SampleCount |-> clamp(v, -1, 1)], editor)

\* TimedomainCanvas.handleMouseMove during a freehand stroke.
timeMouseMoveDrawing ==
  /\ editor.activeView = "time"
  /\ ~editor.time.isDragging /\ editor.time.isDrawing
  /\ \E i \in 1..SampleCount, v \in SampleValues :
       LET c == canvasSetSample(Heap, editor, i, v)
       IN gesture(c.heap, c.editor)

\* TimedomainCanvas.handleMouseUp at the end of a drag or of a stroke.
timeMouseUp ==
  /\ editor.activeView = "time"
  /\ editor.time.isDragging \/ editor.time.isDrawing
  /\ onTimeDomainChangeOf(
       ensureContinuity(canvasSamples(editor, Heap)),
       [editor EXCEPT !.time.isDragging = FALSE, !.time.isDrawing = FALSE])

\* FrequencyCanvas.updateHarmonicAtPosition(harmonic, y), a being the
\* amplitude y stands for.
updateHarmonicAtPosition(hp, ed, harmonic, a) ==
  canvasSetHarmonic(hp, ed, harmonic, a,
                    canvasHarmonics(ed, hp)[harmonic].phase)

\* FrequencyCanvas.handleMouseDown on the bar area of a harmonic.
frequencyMouseDown ==
  /\ editor.activeView = "frequency"
  /\ \E h \in 1..HarmonicCount, a \in AmplitudeValues :
       LET c == updateHarmonicAtPosition(
                  Heap, [editor EXCEPT !.freq.draggedHarmonic = <<h>>], h, a)
       IN gesture(c.heap, c.editor)

\* FrequencyCanvas.handleMouseMove while dragging.
frequencyMouseMove ==
  /\ editor.activeView = "frequency"
  /\ editor.freq.draggedHarmonic # Null
  /\ \E a \in AmplitudeValues :
       LET c == updateHarmonicAtPosition(Heap, editor,
                                         editor.freq.draggedHarmonic[1], a)
       IN gesture(c.heap, c.editor)

\* FrequencyCanvas.handleMouseUp at the end of a drag.
frequencyMouseUp ==
  /\ editor.activeView = "frequency"
  /\ editor.freq.draggedHarmonic # Null
  /\ onFrequencyDomainChangeOf(
       canvasHarmonics(editor, Heap),
       [editor EXCEPT !.freq.draggedHarmonic = Null])

\* The editor with its canvases, without audio.
CanvasNext ==
  \/ timeMouseDown
  \/ timeMouseMoveDragging
  \/ timeMouseMoveDrawing
  \/ timeMouseUp
  \/ frequencyMouseDown
  \/ frequencyMouseMove
  \/ frequencyMouseUp
  \/ editorUndo
  \/ editorRedo
  \/ \E name \in PresetNames : loadPreset(name)
  \/ \E viewType \in Views : switchView(viewType)

CanvasSpec == EditorInit /\ [][CanvasNext]_vars

(***************************************************************************)
(* The editor over a localStorage that may throw on getItem and setItem.   *)
(***************************************************************************)
\* localStorage starts or stops throwing between two handlers.
storageFault ==
  /\ \E r, w \in BOOLEAN :
       /\ <<r, w>> # <<editor.storage.readFails, editor.storage.writeFails>>
       /\ editor' = [editor EXCEPT !.storage.readFails = r,
                                   !.storage.writeFails = w]
  /\ editorStep

FailNext ==
  \/ onTimeDomainChange
  \/ onFrequencyDomainChange
  \/ \E name \in PresetNames : loadPreset(name)
  \/ editorUndo
  \/ editorRedo
  \/ storageFault

FailSpec == EditorInit /\ [][FailNext]_vars

(***************************************************************************)
(* Waveform, FrequencySpectrum and WaveformTransform on their own.  A      *)
(* number is a fraction n/d in lowest terms with d > 0, computed exactly;  *)
(* the rounding of Float32Array and of double arithmetic is left out.  An  *)
(* angle is a whole number of quarter turns, so that its sine and cosine   *)
(* are 0, 1 or -1.                                                         *)
(***************************************************************************)
RECURSIVE gcd(_, _)
gcd(a, b) == IF b = 0 THEN a ELSE gcd(b, a % b)

Q(n, d) == LET g == gcd(Abs(n), d) IN [n |-> n \div g, d |-> d \div g]
Zero == Q(0, 1)
One == Q(1, 1)
plus(a, b) == Q(a.n * b.d + b.n * a.d, a.d * b.d)
minus(a, b) == Q(a.n * b.d - b.n * a.d, a.d * b.d)
times(a, b) == Q(a.n * b.n, a.d * b.d)
\* a / b for b # 0.
over(a, b) == IF b.n > 0 THEN Q(a.n * b.d, a.d * b.n)
              ELSE Q(-(a.n * b.d), a.d * (-b.n))
less(a, b) == a.n * b.d < b.n * a.d
\* Math.abs, Math.max, Math.min.
abs(a) == [n |-> Abs(a.n), d |-> a.d]
max(a, b) == IF less(a, b) THEN b ELSE a
min(a, b) == IF less(b, a) THEN b ELSE a
\* a[1] + ... + a[k].
RECURSIVE sum(_, _)
sum(a, k) == IF k = 0 THEN Zero ELSE plus(sum(a, k - 1), a[k])
\* The largest of a[1], ..., a[k] and 0.
RECURSIVE peak(_, _)
peak(a, k) == IF k = 0 THEN Zero ELSE max(peak(a, k - 1), a[k])

\* The operand of a bitwise operator: the number without its fraction
\* (the numbers of the model stay below 2^31).
ToInt32(x) == IF x.n >= 0 THEN x.n \div x.d ELSE -((-x.n) \div x.d)
\* a & b for a, b >= 0.
RECURSIVE BitAnd(_, _)
BitAnd(a, b) ==
  IF a = 0 \/ b = 0 THEN 0
  ELSE (a % 2) * (b % 2) + 2 * BitAnd(a \div 2, b \div 2)

\* What a constructor or method leaves: the object, the value returned and
\* whether it threw.
Returns(obj, value) == [obj |-> obj, ret |-> value, threw |-> FALSE]
Throws(obj) == [obj |-> obj, ret |-> Null, threw |-> TRUE]
NoObject == [kind |-> "none"]

\* Waveform.isPowerOfTwo(n): n - 1 > -1 when n > 0, so both operands of &
\* are >= 0.
isPowerOfTwo(n) ==
  less(Zero, n) /\ BitAnd(ToInt32(n), ToInt32(minus(n, One))) = 0

\* new Float32Array(length): the length is the number without its fraction.
Float32Array(length) == [i \in 1..ToInt32(length) |-> Zero]

\* new Waveform(sampleRate).
Waveform(sampleRate) ==
  IF ~isPowerOfTwo(sampleRate) THEN Throws(NoObject)
  ELSE Returns([kind |-> "Waveform", sampleRate |-> sampleRate,
                samples |-> Float32Array(sampleRate)], Null)

\* The methods of a Waveform w; an index is a whole number, 0-based.
Waveform_getSample(w, index) ==
  IF index < 0 \/ ~less(Q(index, 1), w.sampleRate) THEN Throws(w)
  ELSE Returns(w, <<w.samples[index + 1]>>)

\* A setSample that stores the value as it is given.
Waveform_setSample_unclamped(w, index, value) ==
  IF index < 0 \/ ~less(Q(index, 1), w.sampleRate) THEN Throws(w)
  ELSE Returns([w EXCEPT !.samples[index + 1] = value], Null)

Waveform_setSample(w, index, value) ==
  IF index < 0 \/ ~less(Q(index, 1), w.sampleRate) THEN Throws(w)
  ELSE Returns([w EXCEPT !.samples[index + 1] =
                           max(Q(-1, 1), min(One, value))], Null)

\* The methods below are modelled for a sampleRate that is a whole number.
Waveform_ensureContinuity(w) ==
  Returns([w EXCEPT !.samples[w.sampleRate.n] = w.samples[1]], Null)

Waveform_smooth(w, amount) ==
  IF ~less(Zero, amount) \/ less(One, amount) THEN Returns(w, Null)
  ELSE LET N == w.sampleRate.n
           smp(i) == w.samples[i + 1]
       IN Returns([w EXCEPT !.samples =
                     [j \in 1..N |->
                        LET i == j - 1
                        IN plus(times(smp(i), minus(One, amount)),
                                times(times(plus(smp((i - 1 + N) % N),
                                                 smp((i + 1) % N)),
                                            Q(1, 2)), amount))]], Null)

Waveform_normalize(w) ==
  LET N == w.sampleRate.n
      m == peak([i \in 1..N |-> abs(w.samples[i])], N)
  IN IF less(Zero, m) /\ m # One
     THEN Returns([w EXCEPT !.samples = [i \in 1..N |-> over(w.samples[i], m)]],
                  Null)
     ELSE Returns(w, Null)

Waveform_clone(w) ==
  LET cloned == Waveform(w.sampleRate)
  IN IF cloned.threw THEN cloned
     ELSE Returns(w, <<[cloned.obj EXCEPT !.samples = w.samples]>>)

\* Math.PI * 2 in quarter turns.
TwoPi == 4
\* a % b of JavaScript: the remainder has the sign of a.
Remainder(a, b) == IF a >= 0 THEN a % b ELSE -((-a) % b)
\* Math.sin and Math.cos of k quarter turns.
sin(k) == CASE k % TwoPi = 0 -> 0 [] k % TwoPi = 1 -> 1
            [] k % TwoPi = 2 -> 0 [] k % TwoPi = 3 -> -1
cos(k) == sin(k + 1)

\* new FrequencySpectrum(harmonicCount) for a whole number harmonicCount.
FrequencySpectrum(harmonicCount) ==
  [kind |-> "FrequencySpectrum", harmonicCount |-> harmonicCount,
   harmonics |-> [i \in 1..harmonicCount |-> [amplitude |-> Zero, phase |-> 0]]]

\* The methods of a FrequencySpectrum sp.
FrequencySpectrum_getHarmonic(sp, index) ==
  IF index < 0 \/ index >= sp.harmonicCount THEN Throws(sp)
  ELSE Returns(sp, <<sp.harmonics[index + 1]>>)

\* A setHarmonic that writes to the nearest harmonic when the index is out
\* of range.
FrequencySpectrum_setHarmonic_nearest(sp, index, amplitude, phase) ==
  Returns([sp EXCEPT !.harmonics[clamp(index, 0, sp.harmonicCount - 1) + 1] =
              [amplitude |-> max(Zero, min(One, amplitude)),
               phase |-> Remainder(phase, TwoPi)]], Null)

FrequencySpectrum_setHarmonic(sp, index, amplitude, phase) ==
  IF index < 0 \/ index >= sp.harmonicCount THEN Throws(sp)
  ELSE Returns([sp EXCEPT !.harmonics[index + 1] =
                   [amplitude |-> max(Zero, min(One, amplitude)),
                    phase |-> Remainder(phase, TwoPi)]], Null)

FrequencySpectrum_clear(sp) ==
  Returns([sp EXCEPT !.harmonics =
             [i \in 1..sp.harmonicCount |-> [amplitude |-> Zero, phase |-> 0]]],
          Null)

FrequencySpectrum_normalize(sp) ==
  LET total == sum([i \in 1..sp.harmonicCount |-> sp.harmonics[i].amplitude],
                   sp.harmonicCount)
  IN IF less(Zero, total) /\ total # One
     THEN Returns([sp EXCEPT !.harmonics =
                     [i \in 1..sp.harmonicCount |->
                        [sp.harmonics[i] EXCEPT !.amplitude = over(@, total)]]],
                  Null)
     ELSE Returns(sp, Null)

FrequencySpectrum_clone(sp) ==
  Returns(sp, <<[FrequencySpectrum(sp.harmonicCount)
                   EXCEPT !.harmonics = sp.harmonics]>>)

\* The sum toTimeDomain computes for sample `sample` of sampleRate samples
\* (sampleRate divides TwoPi, so that every angle is a quarter turn).
additiveSum(sp, sampleRate, sample) ==
  sum([h \in 1..sp.harmonicCount |->
         IF less(Zero, sp.harmonics[h].amplitude)
         THEN times(sp.harmonics[h].amplitude,
                    Q(sin((TwoPi * h * sample) \div sampleRate
                          + sp.harmonics[h].phase), 1))
         ELSE Zero],
      sp.harmonicCount)

\* WaveformTransform.toTimeDomain(spectrum, sampleRate).
WaveformTransform_toTimeDomain(sp, sampleRate) ==
  LET made == Waveform(Q(sampleRate, 1))
      RECURSIVE fill(_, _)
      fill(w, k) ==
        IF k = 0 THEN w
        ELSE Waveform_setSample(fill(w, k - 1), k - 1,
                                additiveSum(sp, sampleRate, k - 1)).obj
  IN IF made.threw THEN made
     ELSE Returns(sp, <<Waveform_normalize(fill(made.obj, sampleRate)).obj>>)

\* The real and imaginary part toFrequencyDomain computes for harmonic k
\* (0-based) of waveform w.
dft(w, k) ==
  LET N == w.sampleRate.n
  IN [real |-> over(sum([j \in 1..N |->
                           times(w.samples[j],
                                 Q(cos(((-TwoPi) * (k + 1) * (j - 1)) \div N), 1))],
                        N), Q(N, 1)),
      imag |-> over(sum([j \in 1..N |->
                           times(w.samples[j],
                                 Q(sin(((-TwoPi) * (k + 1) * (j - 1)) \div N), 1))],
                        N), Q(N, 1))]

\* Math.sqrt(real * real + imag * imag) and Math.atan2(imag, real) where one
\* of the two is 0.
modulus(c) == plus(abs(c.real), abs(c.imag))
atan2(imag, real) ==
  IF imag.n = 0 THEN (IF real.n < 0 THEN 2 ELSE 0)
  ELSE IF imag.n > 0 THEN 1 ELSE -1

\* WaveformTransform.toFrequencyDomain(waveform, harmonicCount) for a
\* waveform whose harmonics each have a real or an imaginary part of 0.
WaveformTransform_toFrequencyDomain(w, harmonicCount) ==
  LET RECURSIVE fill(_, _)
      fill(sp, k) ==
        IF k = 0 THEN sp
        ELSE LET c == dft(w, k - 1)
             IN FrequencySpectrum_setHarmonic(
                  fill(sp, k - 1), k - 1, times(Q(2, 1), modulus(c)),
                  atan2(c.imag, c.real)).obj
  IN Returns(w, <<fill(FrequencySpectrum(harmonicCount), harmonicCount)>>)

\* WaveformTransform.bandLimit(spectrum, cutoffHarmonic), cutoffHarmonic >= 0.
WaveformTransform_bandLimit(sp, cutoffHarmonic) ==
  LET limited == FrequencySpectrum_clone(sp).ret[1]
  IN Returns(sp, <<[limited EXCEPT !.harmonics =
                      [i \in 1..sp.harmonicCount |->
                         IF i - 1 >= cutoffHarmonic
                         THEN FrequencySpectrum_setHarmonic(limited, i - 1,
                                                            Zero, 0)
                                .obj.harmonics[i]
                         ELSE limited.harmonics[i]]]>>)

\* An updateHarmonicAtPosition that leaves the phase to setHarmonic's default.
FrequencyCanvas_updateHarmonicAtPosition_noPhase(sp, harmonic, height) ==
  FrequencySpectrum_setHarmonic(sp, harmonic, max(Zero, min(One, height)), 0)

\* FrequencyCanvas.updateHarmonicAtPosition(harmonic, y) on spectrum sp,
\* height being (centerY - y) / maxBarHeight.
FrequencyCanvas_updateHarmonicAtPosition(sp, harmonic, height) ==
  LET amplitude == max(Zero, min(One, height))
      current == FrequencySpectrum_getHarmonic(sp, harmonic)
  IN IF current.threw THEN current
     ELSE FrequencySpectrum_setHarmonic(sp, harmonic, amplitude,
                                        current.ret[1].phase)

\* Largest number of calls in one behaviour of DomainSpec.
MaxOps == 4
\* The arguments the calls are made with.
Lengths == {Q(-1, 1), Zero, Q(1, 2), One, Q(3, 2), Q(2, 1), Q(3, 1), Q(4, 1)}
SampleInputs == {Q(-2, 1), Q(-1, 2), Q(1, 2), One}
Amounts == {Zero, Q(1, 2), One, Q(3, 2)}
HarmonicCounts == {1, 2}
AmplitudeInputs == {Q(-1, 2), Q(1, 2), One, Q(2, 1)}
PhaseInputs == {-1, 0, 1, 5}
Heights == {Q(-1, 2), Q(1, 2), Q(3, 2)}
TableSizes == {1, 2, 4}

isWaveform(o) == o.kind = "Waveform" /\ o.sampleRate.d = 1
isSpectrum(o) == o.kind = "FrequencySpectrum"

\* A call has left r; the pointer then drags the bar in `dragged`.
call(name, r, dragged) ==
  /\ dom.steps < MaxOps
  /\ dom' = [obj |-> r.obj, ret |-> r.ret, threw |-> r.threw,
             steps |-> dom.steps + 1, dragged |-> dragged]
  /\ lastOp' = name
  /\ UNCHANGED <<maxHistory, history, currentIndex, sampleBufs, harmArrays,
                 harmObjs, live, ret, threw, events, now, dropped, pushCount,
                 run, editor>>

\* The caller goes on with the object a call has returned.
made(r) == IF r.threw THEN r ELSE [r EXCEPT !.obj = r.ret[1]]

newWaveform(sampleRate) ==
  /\ dom.obj = NoObject
  /\ call("new Waveform", Waveform(sampleRate), Null)

newFrequencySpectrum ==
  /\ dom.obj = NoObject
  /\ \E n \in HarmonicCounts :
       call("new FrequencySpectrum", Returns(FrequencySpectrum(n), Null), Null)

getSample(index) ==
  /\ isWaveform(dom.obj)
  /\ call("getSample", Waveform_getSample(dom.obj, index), Null)

setSampleOf(index, value) ==
  /\ isWaveform(dom.obj)
  /\ call("setSample", Waveform_setSample(dom.obj, index, value), Null)

waveformStep ==
  /\ isWaveform(dom.obj)
  /\ \/ call("ensureContinuity", Waveform_ensureContinuity(dom.obj), Null)
     \/ \E amount \in Amounts :
          call("smooth", Waveform_smooth(dom.obj, amount), Null)
     \/ call("normalize", Waveform_normalize(dom.obj), Null)
     \/ call("clone", made(Waveform_clone(dom.obj)), Null)

getHarmonic(index) ==
  /\ isSpectrum(dom.obj)
  /\ call("getHarmonic", FrequencySpectrum_getHarmonic(dom.obj, index), Null)

setHarmonicOf(index, amplitude, phase) ==
  /\ isSpectrum(dom.obj)
  /\ call("setHarmonic",
          FrequencySpectrum_setHarmonic(dom.obj, index, amplitude, phase),
          Null)

spectrumStep ==
  /\ isSpectrum(dom.obj)
  /\ \/ call("clear", FrequencySpectrum_clear(dom.obj), Null)
     \/ call("normalize", FrequencySpectrum_normalize(dom.obj), Null)
     \/ call("clone", made(FrequencySpectrum_clone(dom.obj)), Null)
     \/ \E cutoffHarmonic \in 0..dom.obj.harmonicCount :
          call("bandLimit",
               made(WaveformTransform_bandLimit(dom.obj, cutoffHarmonic)), Null)

toTimeDomainOf(sampleRate) ==
  /\ isSpectrum(dom.obj)
  /\ call("toTimeDomain",
          made(WaveformTransform_toTimeDomain(dom.obj, sampleRate)), Null)

toFrequencyDomainOf(harmonicCount) ==
  /\ isWaveform(dom.obj)
  /\ \A k \in 0..(harmonicCount - 1) :
       dft(dom.obj, k).real = Zero \/ dft(dom.obj, k).imag = Zero
  /\ call("toFrequencyDomain",
          made(WaveformTransform_toFrequencyDomain(dom.obj, harmonicCount)),
          Null)

\* FrequencyCanvas.handleMouseDown on bar `harmonic`, handleMouseMove while
\* dragging and handleMouseUp, for a canvas whose spectrum is dom.obj and
\* which shows all its harmonics.
barMouseDown ==
  /\ isSpectrum(dom.obj)
  /\ \E harmonic \in 0..(dom.obj.harmonicCount - 1), height \in Heights :
       call("mousedown",
            FrequencyCanvas_updateHarmonicAtPosition(dom.obj, harmonic, height),
            <<harmonic>>)

barMouseMove(height) ==
  /\ isSpectrum(dom.obj)
  /\ dom.dragged # Null
  /\ call("mousemove",
          FrequencyCanvas_updateHarmonicAtPosition(dom.obj, dom.dragged[1],
                                                   height),
          dom.dragged)

barMouseUp ==
  /\ isSpectrum(dom.obj)
  /\ dom.dragged # Null
  /\ call("mouseup", Returns(dom.obj, Null), Null)

\* No editor and no history are at work.
NoEditor ==
  /\ maxHistory = 1
  /\ history = <<>>
  /\ currentIndex = -1
  /\ sampleBufs = [a \in Slots |-> FreeBuf]
  /\ harmArrays = [a \in Slots |-> FreeArr]
  /\ harmObjs = [a \in ObjAddrs |-> FreeObj]
  /\ live = LiveRef
  /\ ret = Null
  /\ threw = FALSE
  /\ events = <<>>
  /\ now = 0
  /\ lastOp = "none"
  /\ dropped = {}
  /\ pushCount = 0
  /\ run = 0
  /\ editor = NewEditor

DomainInit ==
  /\ dom = [obj |-> NoObject, ret |-> Null, threw |-> FALSE, steps |-> 0,
            dragged |-> Null]
  /\ NoEditor

DomainNext ==
  \/ \E sampleRate \in Lengths : newWaveform(sampleRate)
  \/ newFrequencySpectrum
  \/ \E index \in -1..4 : getSample(index)
  \/ \E index \in -1..4, value \in SampleInputs : setSampleOf(index, value)
  \/ waveformStep
  \/ \E index \in -1..2 : getHarmonic(index)
  \/ \E index \in -1..2, amplitude \in AmplitudeInputs, phase \in PhaseInputs :
       setHarmonicOf(index, amplitude, phase)
  \/ spectrumStep
  \/ \E sampleRate \in TableSizes : toTimeDomainOf(sampleRate)
  \/ \E harmonicCount \in HarmonicCounts : toFrequencyDomainOf(harmonicCount)
  \/ barMouseDown
  \/ \E height \in Heights : barMouseMove(height)
  \/ barMouseUp

\* Calls on one Waveform or FrequencySpectrum, the result of a clone or of a
\* transform taking its place.
DomainSpec == DomainInit /\ [][DomainNext]_vars

(***************************************************************************)
(* The control points of the time canvas, for a waveform of 128 samples:   *)
(* the smallest waveform that has more samples than control points.        *)
(***************************************************************************)
\* The largest number of control points.
PointLimit == 64
\* Largest number of control-point moves in one behaviour of PointsSpec.
MaxMoves == 2
\* The values a control point is dragged to.
PointValues == {Q(-1, 2), Q(1, 2), Q(3, 2)}

\* TimedomainCanvas.initializeControlPoints() for waveform w.
initializeControlPoints(w) ==
  LET pointCount == min(Q(PointLimit, 1), w.sampleRate).n
      step == over(w.sampleRate, Q(pointCount, 1))
  IN [i \in 1..pointCount |->
        LET x == times(Q(i - 1, 1), step)
            sampleIndex == x.n \div x.d
        IN [sampleIndex |-> sampleIndex,
            value |-> Waveform_getSample(w, sampleIndex).ret[1]]]

\* TimedomainCanvas.interpolatePointsAt(sampleIndex) for control points cps.
interpolatePointsAt(cps, sampleIndex) ==
  LET found == {i \in 1..(Len(cps) - 1) :
                  /\ cps[i].sampleIndex <= sampleIndex
                  /\ cps[i + 1].sampleIndex >= sampleIndex}
      before == IF found = {} THEN cps[1] ELSE cps[Min(found)]
      after == IF found = {} THEN cps[Len(cps)] ELSE cps[Min(found) + 1]
      range == after.sampleIndex - before.sampleIndex
      t == Q(sampleIndex - before.sampleIndex, range)
  IN IF range = 0 THEN before.value
     ELSE plus(times(before.value, minus(One, t)), times(after.value, t))

\* TimedomainCanvas.updateWaveformFromPoints().
updateWaveformFromPoints(w, cps) ==
  [w EXCEPT !.samples =
     [j \in 1..w.sampleRate.n |->
        Waveform_setSample(w, j - 1, interpolatePointsAt(cps, j - 1))
          .obj.samples[j]]]

\* handleMouseMove while control point `point` (1-based) is dragged to value.
pointMove(point, value) ==
  /\ dom.steps < MaxMoves
  /\ LET cps == [dom.controlPoints EXCEPT ![point].value = value]
     IN dom' = [waveform |-> updateWaveformFromPoints(dom.waveform, cps),
                controlPoints |-> cps, steps |-> dom.steps + 1]
  /\ lastOp' = "pointmove"
  /\ UNCHANGED <<maxHistory, history, currentIndex, sampleBufs, harmArrays,
                 harmObjs, live, ret, threw, events, now, dropped, pushCount,
                 run, editor>>

\* updateFromWaveform(waveform) with the waveform the canvas has.
pointsFromWaveform ==
  /\ dom' = [dom EXCEPT !.controlPoints = initializeControlPoints(dom.waveform)]
  /\ lastOp' = "points"
  /\ UNCHANGED <<maxHistory, history, currentIndex, sampleBufs, harmArrays,
                 harmObjs, live, ret, threw, events, now, dropped, pushCount,
                 run, editor>>

PointsInit ==
  /\ \E w \in {Waveform(Q(2 * PointLimit, 1)).obj} :
       dom = [waveform |-> w, controlPoints |-> initializeControlPoints(w),
              steps |-> 0]
  /\ NoEditor

PointsNext ==
  \/ \E point \in {1, 2, PointLimit - 1, PointLimit}, value \in PointValues :
       pointMove(point, value)
  \/ pointsFromWaveform

PointsSpec == PointsInit /\ [][PointsNext]_vars

(***************************************************************************)
(* WaveformTransform on objects that have addresses: a heap hp holds the   *)
(* sample buffers, the harmonics arrays and the {amplitude, phase}         *)
(* objects, each at the index it was allocated at; a Waveform refers to    *)
(* its buffer and a FrequencySpectrum to its array by address.             *)
(***************************************************************************)
\* The Waveform or FrequencySpectrum value that object o has in heap hp.
valueOf(hp, o) ==
  IF o.kind = "Waveform"
  THEN [kind |-> "Waveform", sampleRate |-> o.sampleRate,
        samples |-> hp.bufs[o.samples]]
  ELSE [kind |-> "FrequencySpectrum", harmonicCount |-> o.harmonicCount,
        harmonics |-> [i \in 1..o.harmonicCount |->
                         hp.objs[hp.arrs[o.harmonics][i]]]]

\* The addresses object o reaches in heap hp.
cellsOf(hp, o) ==
  IF o.kind = "Waveform" THEN {<<"buf", o.samples>>}
  ELSE {<<"arr", o.harmonics>>}
       \cup {<<"obj", hp.arrs[o.harmonics][i]>> : i \in 1..o.harmonicCount}

\* new Waveform(...) / new FrequencySpectrum(...) filled with the value v:
\* a new buffer, or a new array of new objects.
allocate(hp, v) ==
  IF v.kind = "Waveform"
  THEN [heap |-> [hp EXCEPT !.bufs = Append(@, v.samples)],
        obj |-> [kind |-> "Waveform", sampleRate |-> v.sampleRate,
                 samples |-> Len(hp.bufs) + 1]]
  ELSE [heap |-> [hp EXCEPT
                    !.objs = @ \o v.harmonics,
                    !.arrs = Append(@, [i \in 1..v.harmonicCount |->
                                          Len(hp.objs) + i])],
        obj |-> [kind |-> "FrequencySpectrum",
                 harmonicCount |-> v.harmonicCount,
                 harmonics |-> Len(hp.arrs) + 1]]

\* this.samples[i] = ... and this.samples.set(...): the buffer of waveform o
\* takes the samples of v.
writeSamples(hp, o, v) == [hp EXCEPT !.bufs[o.samples] = v.samples]

\* this.harmonics[index] = {amplitude, phase} in setHarmonic: a new object
\* takes the place of the array element.
replaceHarmonic(hp, o, index, amplitude, phase) ==
  LET h == FrequencySpectrum_setHarmonic(valueOf(hp, o), index, amplitude,
                                         phase).obj.harmonics[index + 1]
  IN [hp EXCEPT !.objs = Append(@, h),
                !.arrs[o.harmonics][index + 1] = Len(hp.objs) + 1]

\* this.harmonics[i].amplitude /= sum in normalize(): the objects are
\* written in place.
writeAmplitudes(hp, o) ==
  LET v == FrequencySpectrum_normalize(valueOf(hp, o)).obj
  IN [hp EXCEPT !.objs =
        [a \in 1..Len(hp.objs) |->
           IF \E i \in 1..o.harmonicCount : hp.arrs[o.harmonics][i] = a
           THEN [hp.objs[a] EXCEPT !.amplitude =
                   v.harmonics[CHOOSE i \in 1..o.harmonicCount :
                                 hp.arrs[o.harmonics][i] = a].amplitude]
           ELSE hp.objs[a]]]

\* An applySmoothing that smooths the waveform it is given.
applySmoothing_inPlace(hp, o, amount) ==
  [heap |-> writeSamples(hp, o, Waveform_smooth(valueOf(hp, o), amount).obj),
   obj |-> o]

\* WaveformTransform.applySmoothing(waveform, amount): clone(), then smooth()
\* on the clone.
applySmoothing(hp, o, amount) ==
  LET smoothed == allocate(hp, valueOf(hp, o))
  IN [heap |-> writeSamples(smoothed.heap, smoothed.obj,
                            Waveform_smooth(valueOf(smoothed.heap,
                                                    smoothed.obj),
                                            amount).obj),
      obj |-> smoothed.obj]

\* WaveformTransform.bandLimit(spectrum, cutoffHarmonic): clone(), then
\* setHarmonic(i, 0, 0) on the clone from cutoffHarmonic on.
bandLimit(hp, o, cutoffHarmonic) ==
  LET limited == allocate(hp, valueOf(hp, o))
      RECURSIVE zeroed(_, _)
      zeroed(h, i) ==
        IF i >= o.harmonicCount THEN h
        ELSE zeroed(replaceHarmonic(h, limited.obj, i, Zero, 0), i + 1)
  IN [heap |-> zeroed(limited.heap, cutoffHarmonic), obj |-> limited.obj]

\* toTimeDomain and toFrequencyDomain fill an object they have made.
toTimeDomainNew(hp, o, sampleRate) ==
  allocate(hp, WaveformTransform_toTimeDomain(valueOf(hp, o), sampleRate).ret[1])
toFrequencyDomainNew(hp, o, harmonicCount) ==
  allocate(hp, WaveformTransform_toFrequencyDomain(valueOf(hp, o),
                                                   harmonicCount).ret[1])

\* Largest number of calls in one behaviour of PureSpec.
MaxCalls == 3
\* The waveforms and spectra a transform is given.
InputSamples == {Q(1, 2), Q(-1, 1)}
InputHarmonics ==
  {[amplitude |-> Q(1, 2), phase |-> 0], [amplitude |-> One, phase |-> 1],
   [amplitude |-> Q(1, 2), phase |-> 3]}
Inputs ==
  {[kind |-> "Waveform", sampleRate |-> Q(n, 1), samples |-> w] :
     n \in {2}, w \in [1..2 -> InputSamples]}
  \cup {[kind |-> "FrequencySpectrum", harmonicCount |-> 2, harmonics |-> h] :
          h \in [1..2 -> InputHarmonics]}

\* A call has left heap hp, the object `input` it was given and the object
\* `output` it returned.
pureCall(name, argument, hp, input, output) ==
  /\ dom.steps < MaxCalls
  /\ dom' = [heap |-> hp, input |-> input, output |-> output,
             steps |-> dom.steps + 1, argument |-> argument]
  /\ lastOp' = name
  /\ UNCHANGED <<maxHistory, history, currentIndex, sampleBufs, harmArrays,
                 harmObjs, live, ret, threw, events, now, dropped, pushCount,
                 run, editor>>

\* A transform of the object dom.input.
transform ==
  \/ /\ isWaveform(dom.input)
     /\ \/ \E harmonicCount \in HarmonicCounts :
            LET r == toFrequencyDomainNew(dom.heap, dom.input, harmonicCount)
            IN pureCall("toFrequencyDomain", harmonicCount, r.heap, dom.input, r.obj)
        \/ \E amount \in Amounts :
            LET r == applySmoothing(dom.heap, dom.input, amount)
            IN pureCall("applySmoothing", amount, r.heap, dom.input, r.obj)
  \/ /\ isSpectrum(dom.input)
     /\ \/ \E sampleRate \in TableSizes :
            LET r == toTimeDomainNew(dom.heap, dom.input, sampleRate)
            IN pureCall("toTimeDomain", sampleRate, r.heap, dom.input, r.obj)
        \/ \E cutoffHarmonic \in 0..dom.input.harmonicCount :
            LET r == bandLimit(dom.heap, dom.input, cutoffHarmonic)
            IN pureCall("bandLimit", cutoffHarmonic, r.heap, dom.input,
                        r.obj)

\* A later write to object o, the input or the output of the last transform.
mutate(o) ==
  /\ o # NoObject
  /\ IF isWaveform(o)
     THEN \E index \in 0..(o.sampleRate.n - 1), value \in {Zero, One} :
            pureCall("mutate", o,
                     writeSamples(dom.heap, o,
                                  Waveform_setSample(valueOf(dom.heap, o),
                                                     index, value).obj),
                     dom.input, dom.output)
     ELSE \/ \E index \in 0..(o.harmonicCount - 1) :
               pureCall("mutate", o,
                        replaceHarmonic(dom.heap, o, index, One, 1),
                        dom.input, dom.output)
          \/ pureCall("mutate", o, writeAmplitudes(dom.heap, o),
                      dom.input, dom.output)

PureInit ==
  /\ \E v \in Inputs :
       LET a == allocate([bufs |-> <<>>, arrs |-> <<>>, objs |-> <<>>], v)
       IN dom = [heap |-> a.heap, input |-> a.obj, output |-> NoObject,
                 steps |-> 0, argument |-> NoObject]
  /\ NoEditor

PureNext ==
  \/ transform
  \/ mutate(dom.input)
  \/ mutate(dom.output)

PureSpec == PureInit /\ [][PureNext]_vars

(***************************************************************************)
(* The pointer handlers of the time canvas, with its control points, for   *)
(* a waveform of 128 samples.  A control point is an object: draggedPoint  *)
(* names the place it had in the array it was taken from, and whether that *)
(* array is still this.controlPoints.                                      *)
(***************************************************************************)
\* Largest number of events in one behaviour of TimeCanvasSpec.
MaxEvents == 4
\* screenToValue(y) for a y on the canvas: -(y - h/2) / (0.4 h), from 5/4 at
\* the top edge to -5/4 at the bottom edge.
ScreenValues == {Q(-5, 4), Q(1, 2)}
\* Math.floor(screenToSample(x)) for the pointer positions taken.
ScreenSamples == {0, 1, 2 * PointLimit}
\* The control points the pointer is pressed on.
HitPoints == {1, PointLimit}
\* draggedPoint = null.
NoPoint == [point |-> 0, current |-> FALSE]

\* An updateWaveformAtPosition whose neighbours wrap around the table.
updateWaveformAtPosition_wrapping(w, sampleIndex, value) ==
  LET N == w.sampleRate.n
      RECURSIVE neighbour(_, _)
      neighbour(x, i) ==
        IF i > 2 THEN x
        ELSE LET weight == minus(One, Q(Abs(i), 3))
                 neighborIndex == (sampleIndex + i + N) % N
                 currentValue == Waveform_getSample(x, neighborIndex).ret[1]
             IN neighbour(Waveform_setSample(
                            x, neighborIndex,
                            plus(times(currentValue, minus(One, weight)),
                                 times(value, weight))).obj, i + 1)
  IN IF sampleIndex >= 0 /\ sampleIndex < N
     THEN neighbour(Waveform_setSample(w, sampleIndex, value).obj, -2)
     ELSE w

\* TimedomainCanvas.updateWaveformAtPosition(x, y) on waveform w, sampleIndex
\* being Math.floor(screenToSample(x)) and value screenToValue(y).
updateWaveformAtPosition(w, sampleIndex, value) ==
  LET N == w.sampleRate.n
      RECURSIVE neighbour(_, _)
      neighbour(x, i) ==
        IF i > 2 THEN x
        ELSE LET neighborIndex == sampleIndex + i
                 weight == minus(One, Q(Abs(i), 3))
             IN IF neighborIndex >= 0 /\ neighborIndex < N
                THEN LET currentValue ==
                           Waveform_getSample(x, neighborIndex).ret[1]
                     IN neighbour(
                          Waveform_setSample(
                            x, neighborIndex,
                            plus(times(currentValue, minus(One, weight)),
                                 times(value, weight))).obj, i + 1)
                ELSE neighbour(x, i + 1)
  IN IF sampleIndex >= 0 /\ sampleIndex < N
     THEN neighbour(Waveform_setSample(w, sampleIndex, value).obj, -2)
     ELSE w

\* A handler of the canvas has run and left the fields d, having called
\* emitChange() `emitted` times.
canvasEvent(name, d, emitted) ==
  /\ dom.steps < MaxEvents
  /\ dom' = [d EXCEPT !.steps = dom.steps + 1, !.emitted = emitted]
  /\ lastOp' = name
  /\ UNCHANGED <<maxHistory, history, currentIndex, sampleBufs, harmArrays,
                 harmObjs, live, ret, threw, events, now, dropped, pushCount,
                 run, editor>>

\* TimedomainCanvas.handleMouseDown(e): findPointAtPosition returns a control
\* point, or none and the stroke begins at (sampleIndex, value).
handleMouseDown ==
  \/ \E point \in HitPoints :
       canvasEvent("mousedown",
                   [dom EXCEPT !.isDragging = TRUE,
                               !.draggedPoint = [point |-> point,
                                                 current |-> TRUE]], 0)
  \/ \E sampleIndex \in ScreenSamples, value \in ScreenValues :
       /\ \A i \in 1..Len(dom.controlPoints) :
            dom.controlPoints[i].sampleIndex = sampleIndex
              => dom.controlPoints[i].value # value
       /\ canvasEvent("mousedown",
                      [dom EXCEPT !.isDrawing = TRUE,
                                  !.waveform = updateWaveformAtPosition(
                                                 @, sampleIndex, value)], 0)

\* TimedomainCanvas.handleMouseMove(e) during a gesture.
handleMouseMove ==
  \E sampleIndex \in ScreenSamples, value \in ScreenValues :
    IF dom.isDragging /\ dom.draggedPoint # NoPoint
    THEN LET cps == IF dom.draggedPoint.current
                    THEN [dom.controlPoints EXCEPT
                            ![dom.draggedPoint.point].value = value]
                    ELSE dom.controlPoints
         IN canvasEvent("mousemove",
                        [dom EXCEPT !.controlPoints = cps,
                                    !.waveform =
                                       updateWaveformFromPoints(@, cps)], 1)
    ELSE /\ dom.isDrawing
         /\ canvasEvent("mousemove",
                        [dom EXCEPT !.waveform = updateWaveformAtPosition(
                                                   @, sampleIndex, value)], 0)

\* TimedomainCanvas.handleMouseUp(e).
handleMouseUp ==
  LET d1 == IF dom.isDragging
            THEN [dom EXCEPT !.isDragging = FALSE,
                             !.draggedPoint = NoPoint,
                             !.waveform = Waveform_ensureContinuity(@).obj]
            ELSE dom
      w2 == Waveform_ensureContinuity(d1.waveform).obj
      d2 == IF d1.isDrawing
            THEN [d1 EXCEPT !.isDrawing = FALSE,
                            !.waveform = w2,
                            !.controlPoints = initializeControlPoints(w2),
                            !.draggedPoint.current = FALSE]
            ELSE d1
  IN canvasEvent("mouseup", d2,
                 (IF dom.isDragging THEN 1 ELSE 0)
                 + (IF dom.isDrawing THEN 1 ELSE 0))

\* TimedomainCanvas.handleMouseLeave(e): only the hover state is reset.
handleMouseLeave == canvasEvent("mouseleave", dom, 0)

\* TimedomainCanvas.updateFromWaveform(waveform), which the editor calls on
\* undo, redo, loadPreset and switchView('time'), with a waveform whose
\* samples all are value.
canvasUpdateFromWaveform ==
  \E value \in {Zero, Q(1, 2)} :
    LET w == [dom.waveform EXCEPT
                !.samples = [j \in 1..dom.waveform.sampleRate.n |-> value]]
    IN canvasEvent("updateFromWaveform",
                   [dom EXCEPT !.waveform = w,
                               !.controlPoints = initializeControlPoints(w),
                               !.draggedPoint.current = FALSE], 0)

\* new TimedomainCanvas(canvas, waveform).
TimeCanvasInit ==
  /\ \E w \in {Waveform(Q(2 * PointLimit, 1)).obj} :
       dom = [waveform |-> w, controlPoints |-> initializeControlPoints(w),
              isDragging |-> FALSE, isDrawing |-> FALSE,
              draggedPoint |-> NoPoint, emitted |-> 0, steps |-> 0]
  /\ NoEditor

TimeCanvasNext ==
  \/ handleMouseDown
  \/ handleMouseMove
  \/ handleMouseUp
  \/ handleMouseLeave
  \/ canvasUpdateFromWaveform

TimeCanvasSpec == TimeCanvasInit /\ [][TimeCanvasNext]_vars

(***************************************************************************)
(* AudioPreview (src/src/views/AudioPreview.js).  play() is async: up to   *)
(* its await it runs in the caller's turn; what follows the await runs     *)
(* once Tone.start() has resolved, which is in a later turn as long as the *)
(* audio context was not started, and before any other handler once it     *)
(* was.  An oscillator is an object with a number; `oscillators` holds     *)
(* those that were started and not disposed.                               *)
(***************************************************************************)
\* Largest number of play(), stop() and updateWaveform() calls in one
\* behaviour of AudioSpec, and of play() calls waiting for Tone.start().
MaxRequests == 4
MaxStarts == 2
\* The waveforms handed to play() and updateWaveform().
Previewed == {1, 2}

\* stop() on the fields a.
stopped(a) ==
  [a EXCEPT !.oscillators = {o \in @ : o.id # a.currentOscillator},
            !.currentOscillator = 0,
            !.isPlaying = FALSE]

\* play(waveform) after its await: stop(), then a new oscillator is made,
\* connected and started.
started(a, waveform) ==
  LET b == stopped(a)
  IN [b EXCEPT !.audioContextStarted = TRUE,
               !.currentWaveform = waveform,
               !.made = @ + 1,
               !.oscillators = @ \cup {[id |-> b.made + 1,
                                        waveform |-> waveform]},
               !.currentOscillator = b.made + 1,
               !.isPlaying = TRUE]

\* play(waveform) up to its await, and beyond it when the audio context has
\* been started.
called(a, waveform) ==
  IF a.audioContextStarted THEN started(a, waveform)
  ELSE [a EXCEPT !.pending = Append(@, waveform)]

\* A step of the preview that leaves the fields a.
audioStep(name, a) ==
  /\ dom' = a
  /\ lastOp' = name
  /\ UNCHANGED <<maxHistory, history, currentIndex, sampleBufs, harmArrays,
                 harmObjs, live, ret, threw, events, now, dropped, pushCount,
                 run, editor>>

\* A call of play(), stop() or updateWaveform() that leaves the fields a.
request(name, a) ==
  /\ dom.steps < MaxRequests
  /\ audioStep(name, [a EXCEPT !.steps = @ + 1, !.lastRequest = name])

AudioPreview_play ==
  \E waveform \in Previewed :
    /\ ~dom.audioContextStarted => Len(dom.pending) < MaxStarts
    /\ request("play", called(dom, waveform))

\* Tone.start() resolves for one of the play() calls that wait for it.
AudioPreview_playResumes ==
  \E i \in 1..Len(dom.pending) :
    audioStep("resume",
              started([dom EXCEPT !.pending =
                         SubSeq(@, 1, i - 1) \o SubSeq(@, i + 1, Len(@))],
                      dom.pending[i]))

AudioPreview_stop == request("stop", stopped(dom))

AudioPreview_updateWaveform ==
  \E waveform \in Previewed :
    request("updateWaveform",
            [(IF dom.isPlaying /\ dom.currentOscillator # 0
              THEN called(stopped(dom), waveform)
              ELSE dom) EXCEPT !.currentWaveform = waveform])

\* new AudioPreview().
AudioInit ==
  /\ dom = [isPlaying |-> FALSE, currentOscillator |-> 0, oscillators |-> {},
            currentWaveform |-> 0, audioContextStarted |-> FALSE,
            pending |-> <<>>, made |-> 0, lastRequest |-> "none",
            steps |-> 0]
  /\ NoEditor

AudioNext ==
  \/ AudioPreview_play
  \/ AudioPreview_playResumes
  \/ AudioPreview_stop
  \/ AudioPreview_updateWaveform

AudioSpec == AudioInit /\ [][AudioNext]_vars

(***************************************************************************)
(* The undo and redo buttons of the editor: window's 'historychange'       *)
(* listener and what reaches it.  A snapshot is the number of the edit it  *)
(* records; b holds the history, whether the listener is bound, the        *)
(* disabled properties of the two buttons, and how many events were        *)
(* dispatched and how many handled.                                        *)
(***************************************************************************)
\* Largest number of edits, undos and redos in one behaviour of ButtonsSpec.
MaxClicks == 5

\* updateHistoryButtons(historyState).
updateHistoryButtons(b, historyState) ==
  [b EXCEPT !.undoDisabled = ~historyState.canUndo,
            !.redoDisabled = ~historyState.canRedo,
            !.handled = @ + 1]

\* The history manager has made the history h and the cursor ci and calls
\* dispatchHistoryChange(): window.dispatchEvent runs the listeners bound at
\* that moment.
historyChanged(b, h, ci) ==
  LET b1 == [b EXCEPT !.history = h, !.currentIndex = ci,
                      !.dispatched = @ + 1]
  IN IF b.listening
     THEN updateHistoryButtons(b1, dispatchHistoryChange(h, ci))
     ELSE b1

\* pushToHistory() outside a restore, for edit number n.
pushedToHistory(b, n) ==
  LET p == pushResult(b.history, b.currentIndex, n, EditorMaxHistory)
  IN historyChanged(b, p.history, p.currentIndex)

\* WavetableEditor.initialize(), the buttons being as the page's markup has
\* them: pushToHistory() (line 164), then bindEvents() (line 166), whose
\* last statement binds the 'historychange' listener.
initialize(undoDisabled, redoDisabled) ==
  LET b0 == [history |-> <<>>, currentIndex |-> -1, listening |-> FALSE,
             undoDisabled |-> undoDisabled, redoDisabled |-> redoDisabled,
             dispatched |-> 0, handled |-> 0, steps |-> 0]
      b1 == pushedToHistory(b0, 0)
  IN [b1 EXCEPT !.listening = TRUE]

\* A handler of the editor has run and left b.
buttonsStep(name, b) ==
  /\ dom.steps < MaxClicks
  /\ dom' = [b EXCEPT !.steps = @ + 1]
  /\ lastOp' = name
  /\ UNCHANGED <<maxHistory, history, currentIndex, sampleBufs, harmArrays,
                 harmObjs, live, ret, threw, events, now, dropped, pushCount,
                 run, editor>>

\* An edit: onTimeDomainChange, onFrequencyDomainChange or loadPreset call
\* pushToHistory().
buttonsEdit == buttonsStep("edit", pushedToHistory(dom, dom.steps + 1))

\* WavetableEditor.undo(), from the keyboard or the button.
buttonsUndo ==
  buttonsStep("undo",
              IF canUndo(dom.currentIndex)
              THEN historyChanged(
                     dom, dom.history,
                     undoResult(dom.history, dom.currentIndex).currentIndex)
              ELSE dom)

\* WavetableEditor.redo().
buttonsRedo ==
  buttonsStep("redo",
              IF canRedo(dom.history, dom.currentIndex)
              THEN historyChanged(
                     dom, dom.history,
                     redoResult(dom.history, dom.currentIndex).currentIndex)
              ELSE dom)

\* new WavetableEditor(), on a page whose markup has the buttons enabled or
\* disabled.
ButtonsInit ==
  /\ \E undoDisabled \in BOOLEAN, redoDisabled \in BOOLEAN :
       dom = initialize(undoDisabled, redoDisabled)
  /\ NoEditor

ButtonsNext ==
  \/ buttonsEdit
  \/ buttonsUndo
  \/ buttonsRedo

ButtonsSpec == ButtonsInit /\ [][ButtonsNext]_vars

(***************************************************************************)
(* The claims.                                                             *)
(***************************************************************************)
Pops == {"undo", "redo", "getCurrentState"}

\* The waveform and spectrum values of a state object or snapshot.
Content(hp, s) ==
  [samples |-> SamplesOf(hp, s), harmonics |-> HarmonicsOf(hp, s)]

\* The waveform and spectrum values push() was given for snapshot s.
Pushed(s) == [samples |-> s.orig.samples, harmonics |-> s.orig.harmonics]

\* The snapshots of the history keep their place and their content in a step.
HistoryUntouched ==
  /\ history' = history
  /\ \A i \in 1..Len(history) :
       Content(Heap', history'[i]) = Content(Heap, history[i])

\* C1: a push makes canRedo() false, and a snapshot that was stored after
\* currentIndex when a push happened is never again in the history nor
\* returned by undo, redo or getCurrentState.
C1_RedoBranchAbandoned ==
  /\ lastOp = "push" => ~(currentIndex < Len(history) - 1)
  /\ \A i \in 1..Len(history) : history[i].id \notin dropped
  /\ ret # Null => ret[1].id \notin dropped

\* A redo returns a snapshot after an earlier push has cut off a redo branch.
C1_Witness == dropped # {} /\ lastOp = "redo" /\ ret # Null

\* C2: the history never holds more than maxHistory snapshots, and after
\* more than maxHistory consecutive pushes it holds exactly the maxHistory
\* most recently pushed states, in push order.
C2_BoundedKeepsNewest ==
  /\ Len(history) <= maxHistory
  /\ run > maxHistory =>
       /\ Len(history) = maxHistory
       /\ \A i \in 1..maxHistory :
            /\ history[i].id = pushCount - maxHistory + i
            /\ Content(Heap, history[i]) = Pushed(history[i])

\* More consecutive pushes than maxHistory have happened, the last with a
\* content that differs from the one before.
C2_Witness ==
  /\ lastOp = "push"
  /\ run > maxHistory
  /\ maxHistory = 2
  /\ Content(Heap, history[1]) # Content(Heap, history[2])

\* C3: right after a push currentIndex is the index of the last snapshot,
\* and that snapshot has the content of the state pushed.
C3_CursorAtLastPush ==
  lastOp = "push" =>
    /\ currentIndex = Len(history) - 1
    /\ Len(history) >= 1
    /\ history[Len(history)].id = pushCount
    /\ Content(Heap, history[Len(history)]) = Content(Heap, live)

\* A push has just evicted the oldest entry of a full history.
C3_Witness == lastOp = "push" /\ run > maxHistory /\ currentIndex = maxHistory - 1

\* C4: canUndo() is currentIndex > 0 and canRedo() is currentIndex <
\* history.length - 1; a permitted undo (redo) moves currentIndex by exactly
\* -1 (+1), leaves the snapshots unchanged and returns the content of the
\* snapshot then at currentIndex.
C4_UndoRedoMove ==
  [][/\ canUndo(currentIndex) = (currentIndex > 0)
     /\ canRedo(history, currentIndex) = (currentIndex < Len(history) - 1)
     /\ (undo /\ currentIndex > 0) =>
          /\ currentIndex' = currentIndex - 1
          /\ HistoryUntouched
          /\ ret' # Null
          /\ ret'[1].id = history'[currentIndex' + 1].id
          /\ Content(Heap', ret'[1]) = Content(Heap', history'[currentIndex' + 1])
     /\ (redo /\ currentIndex < Len(history) - 1) =>
          /\ currentIndex' = currentIndex + 1
          /\ HistoryUntouched
          /\ ret' # Null
          /\ ret'[1].id = history'[currentIndex' + 1].id
          /\ Content(Heap', ret'[1]) = Content(Heap', history'[currentIndex' + 1])
    ]_vars

\* An undo has returned a snapshot whose content differs from the one it left.
C4_Witness ==
  /\ lastOp = "undo"
  /\ ret # Null
  /\ Len(history) > currentIndex + 1
  /\ Content(Heap, ret[1]) # Content(Heap, history[currentIndex + 2])

\* C5: no call throws; an undo with currentIndex <= 0 and a redo with
\* currentIndex at the tail return null and leave currentIndex and the
\* snapshots unchanged.
C5_NoOpAtEnds ==
  /\ [](~threw)
  /\ [][/\ (undo /\ currentIndex <= 0) =>
             ret' = Null /\ currentIndex' = currentIndex /\ HistoryUntouched
        /\ (redo /\ currentIndex >= Len(history) - 1) =>
             ret' = Null /\ currentIndex' = currentIndex /\ HistoryUntouched
       ]_vars

\* An undo was refused on a history of one entry.
C5_Witness ==
  lastOp = "undo" /\ ret = Null /\ Len(history) = 1 /\ currentIndex = 0

\* C6: no stored snapshot shares a sample buffer, a harmonics array or a
\* harmonic object with the caller's state, with a returned value or with
\* another snapshot; whatever the caller writes into its own state or into a
\* returned value, every stored snapshot keeps the content it was pushed
\* with and every returned value has that content when it is returned.
C6_NoAliasing ==
  LET roots == <<live>> \o history \o ret
      objsOf(s) == {harmArrays[s.spectrum.harmonics][i] :
                      i \in 1..Len(harmArrays[s.spectrum.harmonics])}
  IN /\ \A i \in 1..Len(history) : Content(Heap, history[i]) = Pushed(history[i])
     /\ (lastOp \in Pops /\ ret # Null) => Content(Heap, ret[1]) = Pushed(ret[1])
     /\ \A i, j \in 1..Len(roots) :
          i < j =>
            /\ roots[i].waveform.samples # roots[j].waveform.samples
            /\ roots[i].spectrum.harmonics # roots[j].spectrum.harmonics
            /\ objsOf(roots[i]) \cap objsOf(roots[j]) = {}

\* The caller has changed its own state since the push of the current
\* snapshot and has written into the value it was returned.
C6_Witness ==
  /\ lastOp = "write"
  /\ ret # Null
  /\ Content(Heap, ret[1]) # Pushed(ret[1])
  /\ currentIndex >= 0
  /\ Content(Heap, live).samples # Content(Heap, history[currentIndex + 1]).samples
  /\ Content(Heap, live).harmonics # Content(Heap, history[currentIndex + 1]).harmonics

\* C7: the value undo, redo or getCurrentState returns carries the
\* timestamp its snapshot was given when it was pushed.
C7_TimestampPreserved ==
  (lastOp \in Pops /\ ret # Null) =>
    /\ ret[1].timestamp = history[currentIndex + 1].timestamp
    /\ ret[1].timestamp = ret[1].orig.timestamp

\* C8: clear() leaves the history empty and currentIndex = -1, so that
\* canUndo() and canRedo() are false and undo, redo and getCurrentState
\* return null; a push on the cleared history gives a history of one entry
\* with currentIndex = 0.
C8_Clear ==
  /\ [](lastOp = "clear" =>
          /\ history = <<>>
          /\ currentIndex = -1
          /\ ~canUndo(currentIndex)
          /\ ~canRedo(history, currentIndex))
  /\ []((history = <<>> /\ lastOp \in Pops) => ret = Null /\ currentIndex = -1)
  /\ [][(push /\ history = <<>>) => Len(history') = 1 /\ currentIndex' = 0]_vars

\* A push has followed a clear: the only entry is not the first one pushed,
\* though no entry was evicted.
C8_Witness ==
  /\ lastOp = "push"
  /\ Len(history) = 1
  /\ maxHistory > 1
  /\ history[1].id > 1

\* The detail {canUndo, canRedo, historySize, currentIndex} of the manager.
DetailNow ==
  [canUndo |-> currentIndex > 0, canRedo |-> currentIndex < Len(history) - 1,
   historySize |-> Len(history), currentIndex |-> currentIndex]

\* C9: every push, every clear and every undo or redo that moves the cursor
\* dispatches exactly one 'historychange' whose detail is the manager's
\* state after the call; an undo or redo that is refused and a
\* getCurrentState dispatch none.
C9_OneEventPerChange ==
  [][/\ (push \/ clear) => events' = <<DetailNow'>>
     /\ (undo \/ redo) =>
          events' = IF currentIndex' # currentIndex THEN <<DetailNow'>> ELSE <<>>
     /\ getCurrentState => events' = <<>>
    ]_vars

\* An undo has moved the cursor and dispatched an event that reports that a
\* redo is now possible.
C9_Witness ==
  lastOp = "undo" /\ Len(events) = 1 /\ events[1].canRedo /\ ret # Null

\* The last snapshot of the history after a step is a new one with the
\* content the editor has after the step.
Recorded ==
  /\ pushCount' = pushCount + 1
  /\ currentIndex' = currentIndex + 1
  /\ Len(history') = currentIndex' + 1
  /\ history'[Len(history')].id = pushCount'
  /\ Content(Heap', history'[Len(history')]) = Content(Heap', live')

\* C10: an undo or redo of the editor pushes nothing: when it returns the
\* snapshots are those it found, currentIndex has moved by one if the move
\* was permitted and not at all otherwise, and the editor shows the snapshot
\* at currentIndex; isRestoringHistory is false between two handlers, and
\* every edit and every preset load is recorded as a new snapshot.
C10_RestoreNeverRecords ==
  /\ [](~editor.isRestoringHistory)
  /\ [][(editorUndo \/ editorRedo) =>
          /\ HistoryUntouched
          /\ pushCount' = pushCount
          /\ editorUndo =>
               currentIndex' = IF currentIndex > 0
                               THEN currentIndex - 1 ELSE currentIndex
          /\ editorRedo =>
               currentIndex' = IF currentIndex < Len(history) - 1
                               THEN currentIndex + 1 ELSE currentIndex
          /\ Content(Heap', live') =
               IF currentIndex' # currentIndex
               THEN Content(Heap, history[currentIndex' + 1])
               ELSE Content(Heap, live)
       ]_vars
  /\ [][(\/ onTimeDomainChange
         \/ onFrequencyDomainChange
         \/ \E name \in PresetNames : loadPreset(name)) => Recorded
       ]_vars

\* In the frequency view and with audio playing, an edit has been recorded
\* after an undo: its push cut off the snapshot the undo had left.
C10_Witness ==
  /\ lastOp = "edit"
  /\ dropped # {}
  /\ editor.activeView = "frequency"
  /\ editor.pendingPlays > 0
  /\ currentIndex = Len(history) - 1

\* The editor's current waveform and spectrum are those of the snapshot at
\* history.currentIndex.
SnapshotIsCurrent ==
  Content(Heap, history[currentIndex + 1]) = Content(Heap, live)

\* The stored item holds the editor's current waveform and spectrum.
PersistedIsCurrent ==
  /\ editor.storage.item.waveform = <<SamplesOf(Heap, live)>>
  /\ editor.storage.item.spectrum = <<HarmonicsOf(Heap, live)>>

C12_HandoffByCloning ==
  /\ [](~editor.time.shared /\ ~editor.freq.shared)
  /\ [][lastOp' = "gesture" => Content(Heap', live') = Content(Heap, live)]_vars

C14_PowerOfTwoOnly ==
  [][\A sampleRate \in Lengths :
       newWaveform(sampleRate) =>
         IF sampleRate \in {One, Q(2, 1), Q(4, 1)}
         THEN /\ ~dom'.threw
              /\ dom'.obj.kind = "Waveform"
              /\ Len(dom'.obj.samples) = sampleRate.n
         ELSE dom'.threw /\ dom'.obj = NoObject
    ]_vars

\* C15: getSample(i) and setSample(i, v) with i outside [0, sampleRate), and
\* getHarmonic(i) and setHarmonic(i, a, p) with i outside [0, harmonicCount),
\* throw and leave the object as it was; with i inside the range they do
\* not throw, whatever v and a are.
C15_OutOfRangeThrows ==
  [][/\ \A index \in -1..4 :
         (getSample(index) \/ \E value \in SampleInputs :
                                 setSampleOf(index, value)) =>
           IF index < 0 \/ index >= dom.obj.sampleRate.n
           THEN dom'.threw /\ dom'.obj = dom.obj
           ELSE ~dom'.threw
     /\ \A index \in -1..2 :
         (getHarmonic(index)
          \/ \E amplitude \in AmplitudeInputs, phase \in PhaseInputs :
               setHarmonicOf(index, amplitude, phase)) =>
           IF index < 0 \/ index >= dom.obj.harmonicCount
           THEN dom'.threw /\ dom'.obj = dom.obj
           ELSE ~dom'.threw
    ]_vars

\* A setSample outside the range of a waveform that holds a sample other
\* than 0 has thrown.
C15_Witness ==
  /\ lastOp = "setSample"
  /\ dom.threw
  /\ isWaveform(dom.obj)
  /\ \E i \in 1..Len(dom.obj.samples) : dom.obj.samples[i] # Zero

\* C16: every harmonic of a FrequencySpectrum, after every sequence of
\* setHarmonic, clear, normalize and clone and as the result of
\* toFrequencyDomain or bandLimit, has an amplitude in [0, 1] and a phase in
\* [0, 2 pi).
C16_SpectrumInvariant ==
  isSpectrum(dom.obj) =>
    \A i \in 1..dom.obj.harmonicCount :
      /\ ~less(dom.obj.harmonics[i].amplitude, Zero)
      /\ ~less(One, dom.obj.harmonics[i].amplitude)
      /\ dom.obj.harmonics[i].phase >= 0
      /\ dom.obj.harmonics[i].phase < TwoPi

\* C17: the waveform toTimeDomain returns is the additive sum divided by the
\* largest magnitude of that sum: sample i is raw[i] / peak, also when the
\* sum exceeds 1 in magnitude.
C17_SumDividedByPeak ==
  [][\A sampleRate \in TableSizes :
       toTimeDomainOf(sampleRate) =>
         LET raw == [i \in 1..sampleRate |->
                       additiveSum(dom.obj, sampleRate, i - 1)]
             p == peak([i \in 1..sampleRate |-> abs(raw[i])], sampleRate)
         IN \A i \in 1..sampleRate :
              dom'.obj.samples[i] =
                IF p = Zero THEN Zero ELSE over(raw[i], p)
    ]_vars

\* The value C18 gives sample sampleIndex: that of the first anchor up to
\* it, that of the last anchor from it on, and between two consecutive
\* anchors their linear interpolation.
anchored(cps, sampleIndex) ==
  LET lo == CHOOSE i \in 1..Len(cps) :
              /\ cps[i].sampleIndex <= sampleIndex
              /\ i < Len(cps) => cps[i + 1].sampleIndex > sampleIndex
  IN IF sampleIndex <= cps[1].sampleIndex THEN cps[1].value
     ELSE IF sampleIndex >= cps[Len(cps)].sampleIndex THEN cps[Len(cps)].value
     ELSE LET a == cps[lo]
              b == cps[lo + 1]
              t == Q(sampleIndex - a.sampleIndex,
                     b.sampleIndex - a.sampleIndex)
          IN plus(times(a.value, minus(One, t)), times(b.value, t))

\* C18: after the waveform is rebuilt from the control points, every sample
\* between two consecutive anchors holds their linear interpolation and
\* every sample at or beyond an end of the anchor array holds exactly the
\* first or last anchor's value (as setSample stores it).
C18_RebuildFromAnchors ==
  lastOp = "pointmove" =>
    \A j \in 1..dom.waveform.sampleRate.n :
      dom.waveform.samples[j] =
        max(Q(-1, 1), min(One, anchored(dom.controlPoints, j - 1)))

\* C19: a pointer-down on bar i and every pointer-move of the drag it starts
\* change nothing but the amplitude of harmonic i: its phase and every other
\* harmonic stay as they were, the new amplitude is in [0, 1], and the drag
\* stays on bar i.
C19_OnlyOneAmplitude ==
  [][lastOp' \in {"mousedown", "mousemove"} =>
       LET i == dom'.dragged[1] + 1
       IN /\ ~dom'.threw
          /\ lastOp' = "mousemove" => dom'.dragged = dom.dragged
          /\ dom'.obj.harmonicCount = dom.obj.harmonicCount
          /\ dom'.obj.harmonics[i].phase = dom.obj.harmonics[i].phase
          /\ \A j \in 1..dom.obj.harmonicCount :
               j # i => dom'.obj.harmonics[j] = dom.obj.harmonics[j]
          /\ ~less(dom'.obj.harmonics[i].amplitude, Zero)
          /\ ~less(One, dom'.obj.harmonics[i].amplitude)
    ]_vars

\* The second bar of two, whose harmonic has a phase other than 0, has been
\* dragged to a new amplitude.
C19_Witness ==
  /\ lastOp = "mousemove"
  /\ dom.obj.harmonicCount = 2
  /\ dom.dragged = <<1>>
  /\ dom.obj.harmonics[2].phase # 0
  /\ dom.obj.harmonics[2].amplitude = Q(1, 2)

\* C20: whether localStorage throws or not, no StorageManager operation
\* throws to its caller and no handler of the editor does; every edit and
\* preset load leaves the waveform and spectrum it leaves when storage
\* succeeds and records them as a new snapshot; every undo and redo leaves
\* the snapshots as they were and shows the one the cursor has moved to;
\* isRestoringHistory is false between handlers.
C20_StorageFailuresContained ==
  /\ [](/\ ~threw
        /\ ~editor.isRestoringHistory
        /\ SnapshotIsCurrent
        /\ ~persist(editor.storage, SamplesOf(Heap, live),
                    HarmonicsOf(Heap, live)).threw
        /\ \A viewType \in Views :
             ~saveActiveView(editor.storage, viewType).threw)
  /\ [][/\ \A w \in [1..SampleCount -> SampleValues] :
            onTimeDomainChangeOf(w, editor) =>
              /\ Recorded
              /\ Content(Heap', live') =
                   [samples |-> w, harmonics |-> toFrequencyDomain(w)]
        /\ \A name \in PresetNames :
            loadPreset(name) =>
              /\ Recorded
              /\ Content(Heap', live') =
                   [samples |-> preset(name, SampleCount),
                    harmonics |-> toFrequencyDomain(preset(name, SampleCount))]
        /\ onFrequencyDomainChange =>
              /\ Recorded
              /\ SamplesOf(Heap', live') = toTimeDomain(HarmonicsOf(Heap', live'))
        /\ (editorUndo \/ editorRedo) =>
              /\ HistoryUntouched
              /\ Content(Heap', live') =
                   Content(Heap, history[currentIndex' + 1])
              /\ currentIndex' # currentIndex =>
                   Content(Heap', live') # Content(Heap, live)
                   \/ Content(Heap, history[currentIndex' + 1]) =
                        Content(Heap, history[currentIndex + 1])
    ]_vars

\* An undo has restored a snapshot while localStorage threw on every read
\* and write: the stored item still holds another waveform.
C20_Witness ==
  /\ lastOp = "editor.undo"
  /\ events # <<>>
  /\ editor.storage.readFails /\ editor.storage.writeFails
  /\ editor.storage.item.waveform # <<SamplesOf(Heap, live)>>
  /\ SnapshotIsCurrent
  /\ ~threw


\* C21: toFrequencyDomain, toTimeDomain, applySmoothing and bandLimit leave
\* the object they are given as it was and return an object that shares no
\* sample buffer, harmonics array or harmonic object with it, so that a later
\* write to either leaves the other as it was; the result of bandLimit has
\* the harmonics of its input at every index below the cutoff.
C21_TransformsArePure ==
  [][/\ transform =>
          /\ valueOf(dom'.heap, dom.input) = valueOf(dom.heap, dom.input)
          /\ dom'.input = dom.input
          /\ cellsOf(dom'.heap, dom'.output)
               \cap cellsOf(dom'.heap, dom'.input) = {}
          /\ lastOp' = "bandLimit" =>
               \A i \in 1..dom.input.harmonicCount :
                 i <= dom'.argument =>
                   valueOf(dom'.heap, dom'.output).harmonics[i]
                     = valueOf(dom.heap, dom.input).harmonics[i]
     /\ dom.output # NoObject =>
          /\ mutate(dom.input) =>
               valueOf(dom'.heap, dom.output) = valueOf(dom.heap, dom.output)
          /\ mutate(dom.output) =>
               valueOf(dom'.heap, dom.input) = valueOf(dom.heap, dom.input)
    ]_vars

\* A spectrum that was band-limited below its length, with a harmonic of the
\* input rewritten afterwards and the result still as bandLimit left it.
C21_Witness ==
  /\ lastOp = "mutate"
  /\ dom.argument = dom.input
  /\ isSpectrum(dom.input)
  /\ isSpectrum(dom.output)
  /\ valueOf(dom.heap, dom.output).harmonics[2].amplitude = Zero
  /\ valueOf(dom.heap, dom.input).harmonics[2].amplitude # Zero
  /\ valueOf(dom.heap, dom.output).harmonics[1]
       # valueOf(dom.heap, dom.input).harmonics[1]

\* C22: a gesture on an anchor, on the free-draw surface or on a harmonic bar
\* appends one snapshot, at its pointer-up: the pointer-down and the
\* pointer-moves append none, and the pointer-up appends exactly one when no
\* restore is in progress.
C22_OneSnapshotPerGesture ==
  [][/\ (\/ timeMouseDown \/ timeMouseMoveDragging \/ timeMouseMoveDrawing
         \/ frequencyMouseDown \/ frequencyMouseMove)
          => pushCount' = pushCount
     /\ (timeMouseUp \/ frequencyMouseUp) /\ ~editor.isRestoringHistory
          => pushCount' = pushCount + 1
    ]_vars

\* The samples updateWaveformAtPosition is to leave for a write of value at
\* sampleIndex into the samples old, bounded(x) being what is stored for a
\* neighbour's weighted value x.
written(old, sampleIndex, value, bounded(_)) ==
  IF sampleIndex < 0 \/ sampleIndex >= Len(old) THEN old
  ELSE [j \in 1..Len(old) |->
          LET d == Abs(j - 1 - sampleIndex)
              w == minus(One, Q(d, 3))
          IN IF d = 0 THEN max(Q(-1, 1), min(One, value))
             ELSE IF d <= 2
             THEN bounded(plus(times(old[j], minus(One, w)), times(value, w)))
             ELSE old[j]]

\* A step of a freehand stroke that writes value at sampleIndex.
strokeAt(sampleIndex, value) ==
  /\ lastOp' \in {"mousedown", "mousemove"}
  /\ dom'.emitted = 0
  /\ dom'.waveform = updateWaveformAtPosition(dom.waveform, sampleIndex, value)

\* C23, as first stated: a freehand write of value v at an index s in range
\* changes only the samples s-2..s+2 that lie in the table, without
\* wraparound, sets sample s to clamp(v, -1, 1) and each neighbour at offset d
\* to old * (1 - w) + v * w with w = 1 - |d| / 3; an index out of range
\* changes nothing.
C23_FreehandWrite_AsStated ==
  [][\A sampleIndex \in ScreenSamples, value \in ScreenValues :
       strokeAt(sampleIndex, value) =>
         dom'.waveform.samples
           = written(dom.waveform.samples, sampleIndex, value, LAMBDA x : x)
    ]_vars

\* C23: the same, each neighbour being set to old * (1 - w) + v * w clamped
\* to [-1, 1].
C23_FreehandWrite ==
  [][\A sampleIndex \in ScreenSamples, value \in ScreenValues :
       strokeAt(sampleIndex, value) =>
         dom'.waveform.samples
           = written(dom.waveform.samples, sampleIndex, value,
                     LAMBDA x : max(Q(-1, 1), min(One, x)))
    ]_vars

\* A stroke pressed at index 0 and moved to index 1, both at the bottom edge
\* of the canvas: the second write has clamped sample 0.
C23_Witness ==
  /\ lastOp = "mousemove"
  /\ dom.isDrawing /\ ~dom.isDragging
  /\ dom.waveform.samples[1] = Q(-1, 1)
  /\ dom.waveform.samples[2] = Q(-1, 1)
  /\ dom.waveform.samples[3] = Q(-35, 36)
  /\ dom.waveform.samples[4] = Q(-5, 12)
  /\ dom.waveform.samples[5] = Zero
  /\ dom.waveform.samples[2 * PointLimit] = Zero

\* C24: with maxLength >= 1, currentIndex is at least -1 and at most
\* length - 1, and is -1 exactly when the history is empty; so whenever the
\* history is not empty getCurrentState() finds an entry and returns a
\* snapshot.
C24_CursorInvariant ==
  /\ maxHistory >= 1
  /\ -1 <= currentIndex
  /\ currentIndex <= Len(history) - 1
  /\ currentIndex = -1 <=> history = <<>>
  /\ history # <<>> =>
       /\ inRange(history, currentIndex)
       /\ at(history, currentIndex) # <<>>
       /\ lastOp = "getCurrentState" => ret # Null /\ ~threw

\* getCurrentState() after an eviction and an undo: the cursor is on the
\* first of two entries.
C24_Witness ==
  /\ lastOp = "getCurrentState"
  /\ pushCount >= 3
  /\ Len(history) = 2
  /\ currentIndex = 0
  /\ ret # Null

\* C25: an undo() that canUndo() permits, followed by redo(), ends on the
\* currentIndex it started from, and the redo returns the content of the
\* snapshot that was current before the undo; the same for a permitted redo()
\* followed by undo(); neither pair changes the stored snapshots.
C25_UndoRedoRoundTrip ==
  [][/\ (undo /\ canUndo(currentIndex)) =>
          /\ HistoryUntouched
          /\ canRedo(history', currentIndex')
          /\ redoResult(history', currentIndex').currentIndex = currentIndex
          /\ redoResult(history', currentIndex').state
               = at(history, currentIndex)
     /\ (redo /\ canRedo(history, currentIndex)) =>
          /\ HistoryUntouched
          /\ canUndo(currentIndex')
          /\ undoResult(history', currentIndex').currentIndex = currentIndex
          /\ undoResult(history', currentIndex').state
               = at(history, currentIndex)
     /\ (lastOp = "undo" /\ ret # Null /\ redo) =>
          /\ HistoryUntouched
          /\ currentIndex' = redoResult(history, currentIndex).currentIndex
          /\ ret' # Null
          /\ ret'[1].id = redoResult(history, currentIndex).state[1].id
          /\ Content(Heap', ret'[1]) = Pushed(history[currentIndex + 2])
     /\ (lastOp = "redo" /\ ret # Null /\ undo) =>
          /\ HistoryUntouched
          /\ currentIndex' = undoResult(history, currentIndex).currentIndex
          /\ ret' # Null
          /\ ret'[1].id = undoResult(history, currentIndex).state[1].id
          /\ Content(Heap', ret'[1]) = Pushed(history[currentIndex])
    ]_vars

\* A redo has brought the cursor back to the second of two snapshots of
\* different content, which an undo had left.
C25_Witness ==
  /\ lastOp = "redo"
  /\ ret # Null
  /\ pushCount = 2
  /\ Len(history) = 2
  /\ currentIndex = 1
  /\ Content(Heap, ret[1]) = Content(Heap, history[2])
  /\ Content(Heap, history[1]) # Content(Heap, history[2])

\* C26: whatever pointer events the time canvas is delivered, and also when
\* a pointer-up is never delivered, isDragging and isDrawing are never both
\* true, draggedPoint is non-null exactly when isDragging is true, and one
\* pointer-up emits at most one waveform-changed notification.
C26_GestureState ==
  /\ ~(dom.isDragging /\ dom.isDrawing)
  /\ dom.draggedPoint # NoPoint <=> dom.isDragging
  /\ lastOp = "mouseup" => dom.emitted <= 1

\* C27: while an anchor is dragged, the dragged point is one of the current
\* control points of the canvas, also after an updateFromWaveform (undo,
\* redo, preset load, view switch) between two pointer events of the drag;
\* so every pointer-move of the drag gives that control point the pointer's
\* value, and the waveform it reports is rebuilt from it.
C27_DraggedPointIsCurrent ==
  /\ [](dom.isDragging => dom.draggedPoint.current)
  /\ [][(dom.isDragging /\ handleMouseMove) =>
          /\ dom'.controlPoints[dom.draggedPoint.point].value \in ScreenValues
          /\ dom'.waveform
               = updateWaveformFromPoints(dom.waveform, dom'.controlPoints)
       ]_vars

\* C28: whenever no gesture is in progress on the time canvas, the control
\* points are strictly increasing in sampleIndex, there are min(64,
\* sampleCount) of them, and the value of each is the sample of the canvas's
\* waveform at its sampleIndex, hence in [-1, 1].
C28_ControlPointsMirror ==
  (~dom.isDragging /\ ~dom.isDrawing) =>
    LET cps == dom.controlPoints
    IN /\ Len(cps) = min(Q(PointLimit, 1), dom.waveform.sampleRate).n
       /\ \A i \in 1..(Len(cps) - 1) :
            cps[i].sampleIndex < cps[i + 1].sampleIndex
       /\ \A i \in 1..Len(cps) :
            /\ cps[i].value = dom.waveform.samples[cps[i].sampleIndex + 1]
            /\ ~less(cps[i].value, Q(-1, 1))
            /\ ~less(One, cps[i].value)

\* C29: however play(), stop() and updateWaveform() interleave with the
\* start of the audio context, once no call is pending isPlaying is true
\* exactly when an oscillator exists, at most one oscillator exists, and if
\* the most recent request was stop() then isPlaying is false and no
\* oscillator exists.
C29_LastRequestWins ==
  dom.pending = <<>> =>
    /\ dom.isPlaying <=> dom.oscillators # {}
    /\ Cardinality(dom.oscillators) <= 1
    /\ dom.lastRequest = "stop" =>
         ~dom.isPlaying /\ dom.oscillators = {}

\* C30: every history-change notification, the one for the snapshot pushed
\* during initialization included, reaches the handler of the button states;
\* so whenever the editor is idle the undo button is enabled exactly when
\* canUndo() and the redo button exactly when canRedo().
C30_NoNotificationLost ==
  /\ dom.handled = dom.dispatched
  /\ dom.undoDisabled = ~canUndo(dom.currentIndex)
  /\ dom.redoDisabled = ~canRedo(dom.history, dom.currentIndex)

=============================================================================
